---- MODULE Spec2Model ----
(***************************************************************************)
(* Verification model of memflow-win32:                                    *)
(*   - SymbolStore (offsets/symstore.rs): PDB download and on-disk cache,  *)
(*     run by concurrent builder threads sharing one cache path;           *)
(*   - KernelInfoScanner (win32/kernel_info.rs): the bootstrap scan;       *)
(*   - Win32Offsets::from_pdb_slice (offsets/mod.rs): offset resolution;   *)
(*   - the start-block scanners (kernel/start_block), ntos::find,          *)
(*     find_guid and find_winver (kernel/ntos.rs), find_with_va_hint and   *)
(*     find_with_va (kernel/ntos/x64.rs) and                               *)
(*     Win32KernelBuilder::build (win32/kernel_builder.rs), each as one    *)
(*     call on the memory or the outcomes it is given;                     *)
(*   - read_to_end with its progress thread (offsets/symstore.rs).         *)
(* Each part has its own specification over the shared variable list; the  *)
(* variables of the other parts stay at their initial value.               *)
(***************************************************************************)
EXTENDS Integers, Sequences, FiniteSets, TLC

VARIABLES
    \* ---- SymbolStore: file system under <cache_path>/<file_name>/
    dirExists,      \* the directory <cache_path>/<file_name> exists
    file,           \* the file <cache_path>/<file_name>/<guid>: [exists, data]
    \* ---- SymbolStore: one load() call per thread at a time
    pc,             \* thread -> position inside load()
    cached,         \* thread -> self.cache_path.is_some() of the store used
    buf,            \* thread -> the local `buffer`
    pos,            \* thread -> write offset of the File handle from File::create
    result,         \* thread -> return value of the load in progress
    stat,           \* thread -> what the load in progress did so far
    \* ---- SymbolStore: observation of the run
    issued,         \* number of load() calls started
    calls,          \* the cached flag of every load() started, in call order
    netHits,        \* HTTP requests sent
    cacheWrites,    \* completed write_all calls on the cache file
    fsFailed,       \* some file-system call failed
    netFailed,      \* some HTTP exchange was not a clean success
    overlap,        \* some load started while another was in progress
    \* ---- KernelInfoScanner: the builder's fields
    s_arch,         \* self.arch: None or an architecture
    s_kernel_hint,  \* self.kernel_hint: None or an address (0 is Address::NULL)
    s_dtb,          \* self.dtb: None or an address
    \* ---- KernelInfoScanner: one scan() call
    spc,            \* position inside scan() / scan_block()
    attempt,        \* 0 before scan_block ran, then 1 or 2
    start_block,    \* the StartBlock scan_block works on
    loc,            \* scan_block's locals: base, size, kernel_guid, kernel_winver
    outcome,        \* what find_guid and find_winver returned in this scan_block
    scanResult,     \* the value scan() returned
    trace,          \* the calls scan() made so far, each with its outcome
    \* ---- Win32Offsets::from_pdb_slice
    pdb,            \* the PDB blob handed in: what it parses to
    pdbResult,      \* the value from_pdb_slice returned
    \* ---- one call of a scanner, of a ntos function or of build()
    arg,            \* the function called and what it is called on
    ret,            \* what the call returned, with the calls it made
    \* ---- read_to_end (download_progress) and its progress thread
    rpc,            \* position of the caller inside read_to_end
    wpc,            \* position of the spawned thread
    finished,       \* the AtomicBool `finished`
    total,          \* the AtomicUsize `total`
    position,       \* the progress bar's position
    rteResult       \* the value read_to_end returned

storeVars == <<dirExists, file, pc, cached, buf, pos, result, stat,
               issued, calls, netHits, cacheWrites, fsFailed, netFailed, overlap>>

scanVars == <<s_arch, s_kernel_hint, s_dtb, spc, attempt, start_block, loc,
              outcome, scanResult, trace>>

pdbVars == <<pdb, pdbResult>>

callVars == <<arg, ret>>

progressVars == <<rpc, wpc, finished, total, position, rteResult>>

vars == <<storeVars, scanVars, pdbVars, callVars, progressVars>>

\* what the actions of one part leave alone
nonStoreVars == <<scanVars, pdbVars, callVars, progressVars>>
nonScanVars == <<storeVars, pdbVars, callVars, progressVars>>
nonPdbVars == <<storeVars, scanVars, callVars, progressVars>>
nonCallVars == <<storeVars, scanVars, pdbVars, progressVars>>
nonProgressVars == <<storeVars, scanVars, pdbVars, callVars>>

----------------------------------------------------------------------------
(* Bounds of the model *)

MaxLoads == 3       \* load() calls issued in one run
PdbLen == 2         \* length in bytes of the PDB the server holds
MaxMissing == 1     \* required items a PDB of the model lacks, at most
MaxOptional == 1    \* optional items a PDB of the model lacks, or has, at most
PageQwords == 16    \* qwords in a page of the model (a 4 KiB page has 512)
SbPages == 18       \* pages in the buffer a start-block scanner is given
MaxDebug == 3       \* entries in a debug directory, at most
RtlBufLen == 30     \* bytes read at RtlGetVersion in the model (the code reads 0x100)
MaxChunks == 5      \* chunks the HTTP body arrives in, at most

Threads == {"t1", "t2"}

----------------------------------------------------------------------------
(* Values *)

\* memflow::error::Error(ErrorOrigin::OsLayer, kind)
Err(kind) == [kind |-> "Err", err |-> kind, bytes |-> <<>>]
Ok(bytes) == [kind |-> "Ok", err |-> "", bytes |-> bytes]
\* a failed assert!/unwrap: the thread unwinds, nothing is returned
Panic == [kind |-> "Panic", err |-> "", bytes |-> <<>>]
NoResult == [kind |-> "None", err |-> "", bytes |-> <<>>]

\* the PDB stored on the server under {file_name}/{guid}/{file_name}
PdbBytes == [i \in 1..PdbLen |-> i]
\* the pointer file stored under {file_name}/{guid}/file.ptr
PtrBytes == <<9>>

\* the Win32Guid every load of the model asks for, and the store's base_url
Guid == [file_name |-> "ntkrnlmp.pdb", guid |-> "ECE191A2"]
base_url == "https://msdl.microsoft.com/download/symbols"

\* format!("{}/{}", a, b): a path is the sequence of its components
Join(a, b) == Append(a, b)

\* let pdb_url = format!("{}/{}/{}", self.base_url, guid.file_name, guid.guid)
pdb_url(guid) == <<base_url, guid.file_name, guid.guid>>
PrimaryUrl(guid) == Join(pdb_url(guid), guid.file_name)
FallbackUrl(guid) == Join(pdb_url(guid), "file.ptr")

ServerBody(url) ==
    IF url[Len(url)] = "file.ptr" THEN PtrBytes
    ELSE IF url = <<base_url, Guid.file_name, Guid.guid, Guid.file_name>> THEN PdbBytes
    ELSE <<>>

\* What one HTTP GET can come back with.  call_ok: ureq::get(url).call() is
\* Ok; has_len: the Content-Length header is present and parses; len: its
\* value; read_ok: reading the body succeeds; body: the bytes read.
Responses(url) ==
    LET b == ServerBody(url) IN
    { [call_ok |-> TRUE,  has_len |-> TRUE,  len |-> Len(b), read_ok |-> TRUE,  body |-> b],
      [call_ok |-> FALSE, has_len |-> FALSE, len |-> 0,      read_ok |-> FALSE, body |-> <<>>],
      [call_ok |-> TRUE,  has_len |-> FALSE, len |-> 0,      read_ok |-> TRUE,  body |-> b],
      [call_ok |-> TRUE,  has_len |-> TRUE,  len |-> Len(b), read_ok |-> TRUE,
                                                   body |-> SubSeq(b, 1, Len(b) - 1)],
      [call_ok |-> TRUE,  has_len |-> TRUE,  len |-> Len(b), read_ok |-> FALSE, body |-> <<>>] }

CleanResponse(r) ==
    r.call_ok /\ r.has_len /\ r.read_ok /\ r.len = Len(r.body)

\* SymbolStore::download_file
download_file(resp) ==
    IF ~resp.call_ok THEN Err("Http")
    ELSE IF ~resp.has_len THEN Panic
    ELSE IF ~resp.read_ok THEN Err("Http")
    ELSE IF Len(resp.body) # resp.len THEN Panic
    ELSE Ok(resp.body)

\* A Content-Length that is missing, or that differs from the body received
BadLength(r) ==
    r.call_ok /\ (~r.has_len \/ (r.read_ok /\ r.len # Len(r.body)))

\* variant: Result::or, whose argument is evaluated whatever the first result
or_else_always(res) == TRUE

\* Result::or_else in SymbolStore::download: the closure runs on Err only
or_else_runs(res) == res.kind = "Err"

NoFile == [exists |-> FALSE, data |-> <<>>]

\* variant: every write lands at the start of the file
WriteAtStart(data, off, chunk) ==
    [i \in 1..(IF Len(data) > Len(chunk) THEN Len(data) ELSE Len(chunk)) |->
        IF i <= Len(chunk) THEN chunk[i] ELSE data[i]]

\* write(2) of `chunk` at offset `off` (0-based) of a file holding `data`;
\* a gap left by a truncation is filled with zero bytes
WriteAt(data, off, chunk) ==
    LET n == IF Len(data) > off + Len(chunk) THEN Len(data) ELSE off + Len(chunk) IN
    [i \in 1..n |->
        IF i > off /\ i <= off + Len(chunk) THEN chunk[i - off]
        ELSE IF i <= Len(data) THEN data[i]
        ELSE 0]

\* What a load did so far.  req: the HTTP exchanges, in order, each with the
\* url, the response and what download_file made of it; dl: the value
\* download() returned; miss: cache_file.exists() was false; touched: a call
\* on the cache path was made; modified: a call that changes it was made
NoStat == [req |-> <<>>, dl |-> NoResult, downloads |-> 0, reads |-> 0, writes |-> 0,
           miss |-> FALSE, touched |-> FALSE, modified |-> FALSE]

InProgress(t) == pc[t] \notin {"idle", "panicked"}

----------------------------------------------------------------------------
(* SymbolStore: initial state, an empty cache and idle threads *)

StoreInit ==
    /\ dirExists = FALSE
    /\ file = NoFile
    /\ pc = [t \in Threads |-> "idle"]
    /\ cached = [t \in Threads |-> FALSE]
    /\ buf = [t \in Threads |-> <<>>]
    /\ pos = [t \in Threads |-> 0]
    /\ result = [t \in Threads |-> NoResult]
    /\ stat = [t \in Threads |-> NoStat]
    /\ issued = 0
    /\ calls = <<>>
    /\ netHits = 0
    /\ cacheWrites = 0
    /\ fsFailed = FALSE
    /\ netFailed = FALSE
    /\ overlap = FALSE

\* load() ends with `res`: the value sits in the frame until Return hands it over
Finish(t, res) ==
    /\ result' = [result EXCEPT ![t] = res]
    /\ pc' = [pc EXCEPT ![t] = "ret"]

\* a caller invokes store.load(guid); c = FALSE is a store built with no_cache()
Load(t, c) ==
    /\ pc[t] = "idle"
    /\ UNCHANGED nonStoreVars
    /\ issued < MaxLoads
    /\ issued' = issued + 1
    /\ cached' = [cached EXCEPT ![t] = c]
    /\ pc' = [pc EXCEPT ![t] = IF c THEN "exists" ELSE "dl_primary"]
    /\ buf' = [buf EXCEPT ![t] = <<>>]
    /\ pos' = [pos EXCEPT ![t] = 0]
    /\ result' = [result EXCEPT ![t] = NoResult]
    /\ stat' = [stat EXCEPT ![t] = NoStat]
    /\ overlap' = (overlap \/ \E u \in Threads \ {t} : InProgress(u))
    /\ calls' = Append(calls, c)
    /\ UNCHANGED <<dirExists, file, netHits, cacheWrites, fsFailed, netFailed>>

\* variant: the existence test is lost and every cached load misses
cache_file_exists_never(f) == FALSE

\* if cache_file.exists()
cache_file_exists(f) == f.exists

Exists(t) ==
    /\ pc[t] = "exists"
    /\ UNCHANGED nonStoreVars
    /\ pc' = [pc EXCEPT ![t] = IF cache_file_exists(file) THEN "open" ELSE "dl_primary"]
    /\ stat' = [stat EXCEPT ![t].miss = ~cache_file_exists(file), ![t].touched = TRUE]
    /\ UNCHANGED <<dirExists, file, cached, buf, pos, result, issued, calls,
                   netHits, cacheWrites, fsFailed, netFailed, overlap>>

\* File::open(cache_file)
Open(t) ==
    /\ pc[t] = "open"
    /\ UNCHANGED nonStoreVars
    /\ \E ok \in BOOLEAN :
        IF ok /\ file.exists
        THEN /\ pc' = [pc EXCEPT ![t] = "read"]
             /\ UNCHANGED <<result, fsFailed>>
        ELSE /\ Finish(t, Err("UnableToReadFile"))
             /\ fsFailed' = TRUE
    /\ UNCHANGED <<dirExists, file, cached, buf, pos, stat, issued, calls,
                   netHits, cacheWrites, netFailed, overlap>>

\* file.read_to_end(&mut buffer)
Read(t) ==
    /\ pc[t] = "read"
    /\ UNCHANGED nonStoreVars
    /\ \E ok \in BOOLEAN :
        IF ok
        THEN /\ buf' = [buf EXCEPT ![t] = file.data]
             /\ stat' = [stat EXCEPT ![t].reads = @ + 1]
             /\ Finish(t, Ok(file.data))
             /\ UNCHANGED fsFailed
        ELSE /\ Finish(t, Err("UnableToReadFile"))
             /\ fsFailed' = TRUE
             /\ UNCHANGED <<buf, stat>>
    /\ UNCHANGED <<dirExists, file, cached, pos, issued, calls,
                   netHits, cacheWrites, netFailed, overlap>>

\* One HTTP exchange of download(): `r` comes back from `url` and
\* download_file turns it into `res`.  last: no further request follows an Err
Exchange(t, url, r, last) ==
    LET res == download_file(r)
        rec == [url |-> url, resp |-> r, res |-> res]
        st == [stat[t] EXCEPT !.req = Append(@, rec),
                              !.downloads = IF last THEN @ ELSE @ + 1]
    IN
    /\ netHits' = netHits + 1
    /\ netFailed' = (netFailed \/ ~CleanResponse(r))
    /\ IF ~last /\ or_else_runs(res)
       THEN \* .or_else(|_| self.download_file(".../file.ptr"))
            /\ pc' = [pc EXCEPT ![t] = "dl_fallback"]
            /\ stat' = [stat EXCEPT ![t] = st]
            /\ UNCHANGED <<buf, result>>
       ELSE IF res.kind = "Ok"
       THEN /\ stat' = [stat EXCEPT ![t] = [st EXCEPT !.dl = res]]
            /\ buf' = [buf EXCEPT ![t] = res.bytes]
            /\ IF cached[t]
               THEN /\ pc' = [pc EXCEPT ![t] = "dircheck"]
                    /\ UNCHANGED result
               ELSE Finish(t, res)          \* self.download(guid)
       ELSE IF res.kind = "Err"
       THEN \* self.download(guid)? : the error is the load's result
            /\ stat' = [stat EXCEPT ![t] = [st EXCEPT !.dl = res]]
            /\ Finish(t, res)
            /\ UNCHANGED buf
       ELSE \* assert!/unwrap failed: the thread unwinds
            /\ pc' = [pc EXCEPT ![t] = "panicked"]
            /\ stat' = [stat EXCEPT ![t] = st]
            /\ UNCHANGED <<buf, result>>

\* download(): the request for {base_url}/{file_name}/{guid}/{file_name}
DownloadPrimary(t) ==
    /\ pc[t] = "dl_primary"
    /\ UNCHANGED nonStoreVars
    /\ \E r \in Responses(PrimaryUrl(Guid)) :
        Exchange(t, PrimaryUrl(Guid), r, FALSE)
    /\ UNCHANGED <<dirExists, file, cached, pos, issued, calls,
                   cacheWrites, fsFailed, overlap>>

\* download(): the request for {base_url}/{file_name}/{guid}/file.ptr
DownloadFallback(t) ==
    /\ pc[t] = "dl_fallback"
    /\ UNCHANGED nonStoreVars
    /\ \E r \in Responses(FallbackUrl(Guid)) : Exchange(t, FallbackUrl(Guid), r, TRUE)
    /\ UNCHANGED <<dirExists, file, cached, pos, issued, calls,
                   cacheWrites, fsFailed, overlap>>

\* if !cache_dir.exists() { fs::create_dir_all(&cache_dir)? }
DirCheck(t) ==
    /\ pc[t] = "dircheck"
    /\ UNCHANGED nonStoreVars
    /\ pc' = [pc EXCEPT ![t] = IF dirExists THEN "create" ELSE "mkdir"]
    /\ UNCHANGED <<dirExists, file, cached, buf, pos, result, stat, issued, calls,
                   netHits, cacheWrites, fsFailed, netFailed, overlap>>

Mkdir(t) ==
    /\ pc[t] = "mkdir"
    /\ UNCHANGED nonStoreVars
    /\ stat' = [stat EXCEPT ![t].modified = TRUE]
    /\ \E ok \in BOOLEAN :
        IF ok
        THEN /\ dirExists' = TRUE
             /\ pc' = [pc EXCEPT ![t] = "create"]
             /\ UNCHANGED <<result, fsFailed>>
        ELSE /\ Finish(t, Err("UnableToCreateDirectory"))
             /\ fsFailed' = TRUE
             /\ UNCHANGED dirExists
    /\ UNCHANGED <<file, cached, buf, pos, issued, calls,
                   netHits, cacheWrites, netFailed, overlap>>

\* File::create(cache_file): creates the file or truncates it to length 0
Create(t) ==
    /\ pc[t] = "create"
    /\ UNCHANGED nonStoreVars
    /\ stat' = [stat EXCEPT ![t].modified = TRUE]
    /\ \E ok \in BOOLEAN :
        IF ok /\ dirExists
        THEN /\ file' = [exists |-> TRUE, data |-> <<>>]
             /\ pos' = [pos EXCEPT ![t] = 0]
             /\ pc' = [pc EXCEPT ![t] = "write"]
             /\ UNCHANGED <<result, fsFailed>>
        ELSE /\ Finish(t, Err("UnableToWriteFile"))
             /\ fsFailed' = TRUE
             /\ UNCHANGED <<file, pos>>
    /\ UNCHANGED <<dirExists, cached, buf, issued, calls,
                   netHits, cacheWrites, netFailed, overlap>>

\* file.write_all(&buffer[..]): a loop of write calls, each writing some
\* bytes at the handle's offset; it returns Ok once the buffer is out
Write(t) ==
    /\ pc[t] = "write"
    /\ UNCHANGED nonStoreVars
    /\ \/ /\ pos[t] = Len(buf[t])
          /\ Finish(t, Ok(buf[t]))
          /\ stat' = [stat EXCEPT ![t].writes = @ + 1]
          /\ cacheWrites' = cacheWrites + 1
          /\ UNCHANGED <<file, pos, fsFailed>>
       \/ /\ pos[t] < Len(buf[t])
          /\ \E k \in 1..(Len(buf[t]) - pos[t]) :
                /\ file' = [file EXCEPT !.data =
                              WriteAt(@, pos[t], SubSeq(buf[t], pos[t] + 1, pos[t] + k))]
                /\ pos' = [pos EXCEPT ![t] = @ + k]
          /\ UNCHANGED <<pc, result, stat, cacheWrites, fsFailed>>
       \/ /\ pos[t] < Len(buf[t])
          /\ Finish(t, Err("UnableToWriteFile"))
          /\ fsFailed' = TRUE
          /\ UNCHANGED <<file, pos, stat, cacheWrites>>
    /\ UNCHANGED <<dirExists, cached, buf, issued, calls, netHits, netFailed, overlap>>

\* load() returns to its caller and its frame is gone
Return(t) ==
    /\ pc[t] = "ret"
    /\ UNCHANGED nonStoreVars
    /\ pc' = [pc EXCEPT ![t] = "idle"]
    /\ buf' = [buf EXCEPT ![t] = <<>>]
    /\ pos' = [pos EXCEPT ![t] = 0]
    /\ result' = [result EXCEPT ![t] = NoResult]
    /\ stat' = [stat EXCEPT ![t] = NoStat]
    /\ cached' = [cached EXCEPT ![t] = FALSE]
    /\ UNCHANGED <<dirExists, file, issued, calls,
                   netHits, cacheWrites, fsFailed, netFailed, overlap>>

StoreNext ==
    \E t \in Threads :
        \/ \E c \in BOOLEAN : Load(t, c)
        \/ Exists(t)
        \/ Open(t)
        \/ Read(t)
        \/ DownloadPrimary(t)
        \/ DownloadFallback(t)
        \/ DirCheck(t)
        \/ Mkdir(t)
        \/ Create(t)
        \/ Write(t)
        \/ Return(t)

----------------------------------------------------------------------------
(* KernelInfoScanner *)

\* Option<T>: None, or Some(v)
None == <<>>
Some(v) == <<v>>

Archs == {"X64", "X86"}
Dtbs == {4096, 8192}            \* page-table roots (physical, non-NULL)
Hints == {0, 63488}             \* virtual kernel hints; 0 is Address::NULL

StartBlocks == [arch : Archs, kernel_hint : Hints, dtb : Dtbs]
NoBlock == [arch |-> "", kernel_hint |-> 0, dtb |-> 0]

\* Results of the collaborators scan() calls
ROk(v) == [kind |-> "Ok", val |-> Some(v)]
RErr == [kind |-> "Err", val |-> None]

FindResults == {RErr} \cup {ROk(b) : b \in StartBlocks}
NtosResults == {RErr, ROk([base |-> 1048576, size |-> 8192])}
GuidResults == {RErr, ROk([file_name |-> "ntkrnlmp.pdb", guid |-> "ECE191A2"])}
WinverResults == {RErr, ROk(<<10, 0, 19041>>)}
SysprocResults == {RErr, ROk(2097152)}

\* Option::ok() of a Result
ok(r) == IF r.kind = "Ok" THEN r.val ELSE None

\* variant: the floor is Win32Version::default()
unwrap_or_zero_version(o) == IF o = None THEN <<0, 0, 0>> ELSE o[1]

\* kernel_winver.unwrap_or_else(|| Win32Version::new(3, 10, 511))
unwrap_or_floor(o) == IF o = None THEN <<3, 10, 511>> ELSE o[1]

\* the error a failed call hands back: the stage and the call's place in the trace
ScanErr(stage) == [kind |-> "Err", stage |-> stage, at |-> Len(trace) + 1, info |-> None]
ScanOk(info) == [kind |-> "Ok", stage |-> "", at |-> 0, info |-> Some(info)]
NoScanResult == [kind |-> "None", stage |-> "", at |-> 0, info |-> None]

Event(fn, succeeded) == [fn |-> fn, ok |-> succeeded]

NoLoc == [base |-> 0, size |-> 0, kernel_guid |-> None, kernel_winver |-> <<0, 0, 0>>]
NoOutcome == [guid |-> RErr, winver |-> RErr]

ScanInit ==
    /\ s_arch = None
    /\ s_kernel_hint = None
    /\ s_dtb = None
    /\ spc = "new"
    /\ attempt = 0
    /\ start_block = NoBlock
    /\ loc = NoLoc
    /\ outcome = NoOutcome
    /\ scanResult = NoScanResult
    /\ trace = <<>>

\* KernelInfoScanner::arch
SetArch(a) ==
    /\ spc = "new"
    /\ UNCHANGED nonScanVars
    /\ s_arch' = Some(a)
    /\ UNCHANGED <<s_kernel_hint, s_dtb, spc, attempt, start_block, loc, outcome,
                   scanResult, trace>>

\* KernelInfoScanner::kernel_hint
SetKernelHint(h) ==
    /\ spc = "new"
    /\ UNCHANGED nonScanVars
    /\ s_kernel_hint' = Some(h)
    /\ UNCHANGED <<s_arch, s_dtb, spc, attempt, start_block, loc, outcome,
                   scanResult, trace>>

\* KernelInfoScanner::dtb
SetDtb(d) ==
    /\ spc = "new"
    /\ UNCHANGED nonScanVars
    /\ s_dtb' = Some(d)
    /\ UNCHANGED <<s_arch, s_kernel_hint, spc, attempt, start_block, loc, outcome,
                   scanResult, trace>>

\* self.scan_block(sb) is entered
EnterScanBlock(sb) ==
    /\ start_block' = sb
    /\ attempt' = attempt + 1
    /\ loc' = NoLoc
    /\ outcome' = NoOutcome
    /\ spc' = "ntos"

\* variant: a failed scan_block is always followed by another fallback
after_scan_block_err_loop(n) == "fallback"

\* self.scan_block(start_block).or_else(|_| { find_fallback(..)?; self.scan_block(..) }):
\* where scan() goes when scan_block number n returned an error
after_scan_block_err(n) == IF n = 1 THEN "fallback" ELSE "done"

\* scan_block returns Err from `stage`
ScanBlockErr(stage) ==
    /\ spc' = after_scan_block_err(attempt)
    /\ scanResult' = IF after_scan_block_err(attempt) = "done"
                     THEN ScanErr(stage) ELSE scanResult
    /\ trace' = Append(trace, Event(stage, FALSE))

\* variant: the user's hints are never taken as the start block
hints_complete_never(arch, dtb, kernel_hint) == FALSE

\* if let (Some(arch), Some(dtb), Some(kernel_hint)) =
\*     (self.arch, self.dtb, self.kernel_hint)
hints_complete(arch, dtb, kernel_hint) ==
    arch # None /\ dtb # None /\ kernel_hint # None

\* scan(): the start block comes from the user's hints or from start_block::find
ScanBegin ==
    /\ spc = "new"
    /\ UNCHANGED nonScanVars
    /\ IF hints_complete(s_arch, s_dtb, s_kernel_hint)
       THEN /\ EnterScanBlock([arch |-> s_arch[1], kernel_hint |-> s_kernel_hint[1],
                               dtb |-> s_dtb[1]])
            /\ trace' = Append(trace, Event("scan_block", TRUE))
            /\ UNCHANGED scanResult
       ELSE /\ spc' = "find"
            /\ UNCHANGED <<attempt, start_block, loc, outcome, scanResult, trace>>
    /\ UNCHANGED <<s_arch, s_kernel_hint, s_dtb>>

\* kernel::start_block::find(&mut self.mem, self.arch)?
Find ==
    /\ spc = "find"
    /\ UNCHANGED nonScanVars
    /\ \E r \in FindResults :
        IF r.kind = "Err"
        THEN /\ scanResult' = ScanErr("find")
             /\ spc' = "done"
             /\ trace' = Append(trace, Event("find", FALSE))
             /\ UNCHANGED <<attempt, start_block, loc, outcome>>
        ELSE LET found == r.val[1]
                 \* if self.kernel_hint.is_some() && sb.kernel_hint.is_null()
                 sb == IF s_kernel_hint # None /\ found.kernel_hint = 0
                       THEN [found EXCEPT !.kernel_hint = s_kernel_hint[1]]
                       ELSE found
             IN
             /\ EnterScanBlock(sb)
             /\ trace' = trace \o <<Event("find", TRUE), Event("scan_block", TRUE)>>
             /\ UNCHANGED scanResult
    /\ UNCHANGED <<s_arch, s_kernel_hint, s_dtb>>

\* kernel::ntos::find(&mut virt_mem, &start_block)?
NtosFind ==
    /\ spc = "ntos"
    /\ UNCHANGED nonScanVars
    /\ \E r \in NtosResults :
        IF r.kind = "Err"
        THEN /\ ScanBlockErr("ntos")
             /\ UNCHANGED loc
        ELSE /\ loc' = [loc EXCEPT !.base = r.val[1].base, !.size = r.val[1].size]
             /\ spc' = "guid"
             /\ trace' = Append(trace, Event("ntos", TRUE))
             /\ UNCHANGED scanResult
    /\ UNCHANGED <<s_arch, s_kernel_hint, s_dtb, attempt, start_block, outcome>>

\* let kernel_guid = kernel::ntos::find_guid(&mut virt_mem, base).ok()
FindGuid ==
    /\ spc = "guid"
    /\ UNCHANGED nonScanVars
    /\ \E r \in GuidResults :
        /\ loc' = [loc EXCEPT !.kernel_guid = ok(r)]
        /\ outcome' = [outcome EXCEPT !.guid = r]
        /\ trace' = Append(trace, Event("guid", r.kind = "Ok"))
    /\ spc' = "winver"
    /\ UNCHANGED <<s_arch, s_kernel_hint, s_dtb, attempt, start_block, scanResult>>

\* let kernel_winver = kernel::ntos::find_winver(&mut virt_mem, base).ok()
\*     .unwrap_or_else(|| Win32Version::new(3, 10, 511))
FindWinver ==
    /\ spc = "winver"
    /\ UNCHANGED nonScanVars
    /\ \E r \in WinverResults :
        /\ loc' = [loc EXCEPT !.kernel_winver = unwrap_or_floor(ok(r))]
        /\ outcome' = [outcome EXCEPT !.winver = r]
        /\ trace' = Append(trace, Event("winver", r.kind = "Ok"))
    /\ spc' = "sysproc"
    /\ UNCHANGED <<s_arch, s_kernel_hint, s_dtb, attempt, start_block, scanResult>>

\* variant: the dtb of the result is the user's dtb whenever one was given
kernel_info_user_dtb(sb, l, e) ==
    [os_info |-> [base |-> l.base, size |-> l.size, arch |-> sb.arch],
     dtb |-> IF s_dtb # None THEN s_dtb[1] ELSE sb.dtb,
     kernel_guid |-> l.kernel_guid,
     kernel_winver |-> l.kernel_winver,
     eprocess_base |-> e]

\* let StartBlock { arch, kernel_hint: _, dtb } = start_block;
\* Ok(Win32KernelInfo { os_info: OsInfo { base, size, arch }, dtb, .. })
kernel_info(sb, l, e) ==
    [os_info |-> [base |-> l.base, size |-> l.size, arch |-> sb.arch],
     dtb |-> sb.dtb,
     kernel_guid |-> l.kernel_guid,
     kernel_winver |-> l.kernel_winver,
     eprocess_base |-> e]

\* kernel::sysproc::find(&mut virt_mem, &start_block, base)? and the
\* Ok(Win32KernelInfo { .. }) that ends scan_block
SysprocFind ==
    /\ spc = "sysproc"
    /\ UNCHANGED nonScanVars
    /\ \E r \in SysprocResults :
        IF r.kind = "Err"
        THEN ScanBlockErr("sysproc")
        ELSE /\ scanResult' = ScanOk(kernel_info(start_block, loc, r.val[1]))
             /\ spc' = "done"
             /\ trace' = Append(trace, Event("sysproc", TRUE))
    /\ UNCHANGED <<s_arch, s_kernel_hint, s_dtb, attempt, start_block, loc, outcome>>

\* kernel::start_block::find_fallback(&mut self.mem, start_block.arch)?
FindFallback ==
    /\ spc = "fallback"
    /\ UNCHANGED nonScanVars
    /\ \E r \in FindResults :
        IF r.kind = "Err"
        THEN /\ scanResult' = ScanErr("find_fallback")
             /\ spc' = "done"
             /\ trace' = Append(trace, Event("find_fallback", FALSE))
             /\ UNCHANGED <<attempt, start_block, loc, outcome>>
        ELSE /\ EnterScanBlock(r.val[1])
             /\ trace' = trace \o <<Event("find_fallback", TRUE), Event("scan_block", TRUE)>>
             /\ UNCHANGED scanResult
    /\ UNCHANGED <<s_arch, s_kernel_hint, s_dtb>>

ScanNext ==
    \/ \E a \in Archs : SetArch(a)
    \/ \E h \in Hints : SetKernelHint(h)
    \/ \E d \in Dtbs : SetDtb(d)
    \/ ScanBegin
    \/ Find
    \/ NtosFind
    \/ FindGuid
    \/ FindWinver
    \/ SysprocFind
    \/ FindFallback

----------------------------------------------------------------------------
(* Win32Offsets::from_pdb_slice *)

\* Every struct, field and symbol from_pdb_slice asks a PDB for
PdbStructs ==
    {"_LIST_ENTRY", "_KPROCESS", "_EPROCESS", "_ETHREAD", "_KTHREAD", "_TEB",
     "_MMVAD_SHORT", "_MMVAD_FLAGS", "_TEB32"}

PdbFields ==
    << <<"_LIST_ENTRY", "Blink">>,
       <<"_EPROCESS", "ActiveProcessLinks">>,
       <<"_KPROCESS", "DirectoryTableBase">>,
       <<"_EPROCESS", "UniqueProcessId">>,
       <<"_EPROCESS", "ImageFileName">>,
       <<"_EPROCESS", "Peb">>,
       <<"_EPROCESS", "SectionBaseAddress">>,
       <<"_EPROCESS", "ExitStatus">>,
       <<"_EPROCESS", "ThreadListHead">>,
       <<"_EPROCESS", "WoW64Process">>,
       <<"_EPROCESS", "Wow64Process">>,
       <<"_KTHREAD", "Teb">>,
       <<"_ETHREAD", "ThreadListEntry">>,
       <<"_TEB", "ProcessEnvironmentBlock">>,
       <<"_TEB32", "ProcessEnvironmentBlock">>,
       <<"_EPROCESS", "VadRoot">>,
       <<"_MMVAD_SHORT", "VadNode">>,
       <<"_MMVAD_SHORT", "LeftChild">>,
       <<"_MMVAD_SHORT", "StartingVpn">>,
       <<"_MMVAD_SHORT", "EndingVpn">>,
       <<"_MMVAD_SHORT", "StartingVpnHigh">>,
       <<"_MMVAD_SHORT", "EndingVpnHigh">>,
       <<"_MMVAD_SHORT", "u">>,
       <<"_MMVAD_FLAGS", "Protection">> >>

PdbSymbolNames == <<"MmPhysicalMemoryBlock", "_MmPhysicalMemoryBlock">>

Range(q) == {q[i] : i \in DOMAIN q}
IndexOf(q, x) == CHOOSE i \in DOMAIN q : q[i] = x

\* The items a PDB may have or lack: structs, fields and symbols
StructItems == {<<"struct", n>> : n \in PdbStructs}
FieldItems == {<<"field", sf[1], sf[2]>> : sf \in Range(PdbFields)}
SymbolItems == {<<"symbol", n>> : n \in Range(PdbSymbolNames)}

\* A parsed PDB that lacks the items of `missing`; the fields of a struct go
\* with it.  layout 0 puts every field at offset 0 and every symbol at RVA 0,
\* layout 1 gives each its own non-zero place.
MakePdb(missing, layout) ==
    LET structs == {n \in PdbStructs : <<"struct", n>> \notin missing} IN
    [ok |-> TRUE,
     structs |-> structs,
     fields |-> {sf \in Range(PdbFields) :
                    sf[1] \in structs /\ <<"field", sf[1], sf[2]>> \notin missing},
     symbols |-> {n \in Range(PdbSymbolNames) : <<"symbol", n>> \notin missing},
     layout |-> layout]

\* a blob that is no PDB
NoPdb == [ok |-> FALSE, structs |-> {}, fields |-> {}, symbols |-> {}, layout |-> 0]

\* the items from_pdb_slice tolerates the absence of (by its code)
TolerantItems ==
    {<<"struct", "_TEB32">>}
    \cup {<<"field", sf[1], sf[2]>> : sf \in
            {<<"_EPROCESS", "WoW64Process">>, <<"_EPROCESS", "Wow64Process">>,
             <<"_TEB32", "ProcessEnvironmentBlock">>,
             <<"_MMVAD_SHORT", "VadNode">>, <<"_MMVAD_SHORT", "LeftChild">>,
             <<"_MMVAD_SHORT", "StartingVpn">>, <<"_MMVAD_SHORT", "EndingVpn">>,
             <<"_MMVAD_SHORT", "StartingVpnHigh">>, <<"_MMVAD_SHORT", "EndingVpnHigh">>,
             <<"_MMVAD_SHORT", "u">>, <<"_MMVAD_FLAGS", "Protection">>}}
    \cup SymbolItems

\* the subsets of S with at most n elements
RECURSIVE SubsetsUpTo(_, _)
SubsetsUpTo(S, n) ==
    IF n = 0 THEN {{}}
    ELSE LET prev == SubsetsUpTo(S, n - 1) IN
         prev \cup {m \cup {x} : m \in prev, x \in S}

\* The inputs of the model: PDBs that lack at most MaxMissing of the other
\* items and, of the tolerated ones, lack at most MaxOptional or have at most
\* MaxOptional; and a blob that does not parse
PdbInputs ==
    LET others == (StructItems \cup FieldItems \cup SymbolItems) \ TolerantItems
        tol == SubsetsUpTo(TolerantItems, MaxOptional)
    IN
    {NoPdb} \cup
    {MakePdb(r \cup o, l) :
        r \in SubsetsUpTo(others, MaxMissing),
        o \in tol \cup {TolerantItems \ k : k \in tol},
        l \in {0, 1}}

\* PdbStruct::find_field: the field's offset and bit offset, or None
find_field(p, s, f) ==
    IF <<s, f>> \in p.fields
    THEN Some([offset |-> p.layout * 8 * IndexOf(PdbFields, <<s, f>>),
               bit_offset |-> p.layout * (IndexOf(PdbFields, <<s, f>>) % 32)])
    ELSE None

\* PdbSymbols::find_symbol: the symbol's RVA, or None
find_symbol(p, n) ==
    IF n \in p.symbols
    THEN Some(p.layout * 4096 * IndexOf(PdbSymbolNames, n))
    ELSE None

\* PdbStruct::new(pdb_slice, name) is Ok
struct_new_ok(p, s) == p.ok /\ s \in p.structs

\* variant: the second name is preferred to the first
or_else_second_first(a, b) == IF b # None THEN b ELSE a

\* Option::or_else
or_else(a, b) == IF a # None THEN a ELSE b

\* variant: an absent item is encoded as an all-ones sentinel
unwrap_or_max(o) == IF o = None THEN 65535 ELSE o[1]

\* Option::unwrap_or(0)
unwrap_or_0(o) == IF o = None THEN 0 ELSE o[1]

\* .map(|f| f.offset) / .map(|f| f.bit_offset)
offset_of(o) == IF o = None THEN None ELSE Some(o[1].offset)
bit_offset_of(o) == IF o = None THEN None ELSE Some(o[1].bit_offset)

Check(k, s, f, msg) == [k |-> k, s |-> s, f |-> f, msg |-> msg]
StructCheck(s) == Check("struct", s, "", s \o " not found")
FieldCheck(s, f) == Check("field", s, f, s \o "::" \o f \o " not found")

\* The `?` of from_pdb_slice in the order the code reaches them.  "teb32" is
\* the `?` inside `if let Ok(teb32) = PdbStruct::new(pdb_slice, "_TEB32")`
OffsetChecks ==
    << Check("symbols", "", "", "Symbols not found"),
       StructCheck("_LIST_ENTRY"),
       StructCheck("_KPROCESS"),
       StructCheck("_EPROCESS"),
       StructCheck("_ETHREAD"),
       StructCheck("_KTHREAD"),
       StructCheck("_TEB"),
       StructCheck("_MMVAD_SHORT"),
       StructCheck("_MMVAD_FLAGS"),
       FieldCheck("_LIST_ENTRY", "Blink"),
       FieldCheck("_EPROCESS", "ActiveProcessLinks"),
       FieldCheck("_KPROCESS", "DirectoryTableBase"),
       FieldCheck("_EPROCESS", "UniqueProcessId"),
       FieldCheck("_EPROCESS", "ImageFileName"),
       FieldCheck("_EPROCESS", "Peb"),
       FieldCheck("_EPROCESS", "SectionBaseAddress"),
       FieldCheck("_EPROCESS", "ExitStatus"),
       FieldCheck("_EPROCESS", "ThreadListHead"),
       FieldCheck("_KTHREAD", "Teb"),
       FieldCheck("_ETHREAD", "ThreadListEntry"),
       FieldCheck("_TEB", "ProcessEnvironmentBlock"),
       Check("teb32", "_TEB32", "ProcessEnvironmentBlock",
             "_TEB32::ProcessEnvironmentBlock not found"),
       FieldCheck("_EPROCESS", "VadRoot") >>

\* variant: the VadRoot lookup falls back to 0 like the VAD fields after it
OffsetChecksVadRootOptional == SubSeq(OffsetChecks, 1, Len(OffsetChecks) - 1)

\* the checks from_pdb_slice runs
RequiredChecks == OffsetChecks

\* whether check c returns its error on PDB p
CheckFails(p, c) ==
    CASE c.k = "symbols" -> ~p.ok
      [] c.k = "struct"  -> ~struct_new_ok(p, c.s)
      [] c.k = "field"   -> find_field(p, c.s, c.f) = None
      [] c.k = "teb32"   -> struct_new_ok(p, c.s) /\ find_field(p, c.s, c.f) = None

\* required field: .find_field(f).ok_or_else(..)?.offset
req(p, s, f) == IF <<s, f>> \in p.fields THEN find_field(p, s, f)[1].offset ELSE 0

\* the table built once every `?` has passed
OffsetTable(p) ==
    [list_blink |-> req(p, "_LIST_ENTRY", "Blink"),
     eproc_link |-> req(p, "_EPROCESS", "ActiveProcessLinks"),
     phys_mem_block |-> unwrap_or_0(or_else(find_symbol(p, "MmPhysicalMemoryBlock"),
                                            find_symbol(p, "_MmPhysicalMemoryBlock"))),
     kproc_dtb |-> req(p, "_KPROCESS", "DirectoryTableBase"),
     eproc_pid |-> req(p, "_EPROCESS", "UniqueProcessId"),
     eproc_name |-> req(p, "_EPROCESS", "ImageFileName"),
     eproc_peb |-> req(p, "_EPROCESS", "Peb"),
     eproc_section_base |-> req(p, "_EPROCESS", "SectionBaseAddress"),
     eproc_exit_status |-> req(p, "_EPROCESS", "ExitStatus"),
     eproc_thread_list |-> req(p, "_EPROCESS", "ThreadListHead"),
     eproc_wow64 |-> unwrap_or_0(offset_of(or_else(find_field(p, "_EPROCESS", "WoW64Process"),
                                                   find_field(p, "_EPROCESS", "Wow64Process")))),
     eproc_vad_root |-> req(p, "_EPROCESS", "VadRoot"),
     kthread_teb |-> req(p, "_KTHREAD", "Teb"),
     ethread_list_entry |-> req(p, "_ETHREAD", "ThreadListEntry"),
     teb_peb |-> req(p, "_TEB", "ProcessEnvironmentBlock"),
     teb_peb_x86 |-> IF struct_new_ok(p, "_TEB32")
                     THEN req(p, "_TEB32", "ProcessEnvironmentBlock")
                     ELSE 0,
     mmvad |->
        [vad_node |-> unwrap_or_0(offset_of(or_else(find_field(p, "_MMVAD_SHORT", "VadNode"),
                                                    find_field(p, "_MMVAD_SHORT", "LeftChild")))),
         starting_vpn |-> unwrap_or_0(offset_of(find_field(p, "_MMVAD_SHORT", "StartingVpn"))),
         ending_vpn |-> unwrap_or_0(offset_of(find_field(p, "_MMVAD_SHORT", "EndingVpn"))),
         starting_vpn_high |->
            unwrap_or_0(offset_of(find_field(p, "_MMVAD_SHORT", "StartingVpnHigh"))),
         ending_vpn_high |->
            unwrap_or_0(offset_of(find_field(p, "_MMVAD_SHORT", "EndingVpnHigh"))),
         u |-> unwrap_or_0(offset_of(find_field(p, "_MMVAD_SHORT", "u"))),
         protection_bit |->
            unwrap_or_0(bit_offset_of(find_field(p, "_MMVAD_FLAGS", "Protection")))]]

\* Win32Offsets::from_pdb_slice: the error of the first `?` that fails, or the table
from_pdb_slice(p) ==
    LET failing == {i \in DOMAIN RequiredChecks : CheckFails(p, RequiredChecks[i])} IN
    IF failing # {}
    THEN LET first == CHOOSE i \in failing : \A j \in failing : i <= j IN
         [kind |-> "Err", err |-> "Offset", msg |-> RequiredChecks[first].msg,
          table |-> None]
    ELSE [kind |-> "Ok", err |-> "", msg |-> "", table |-> Some(OffsetTable(p))]

NoPdbResult == [kind |-> "None", err |-> "", msg |-> "", table |-> None]

PdbIdle == pdb = NoPdb /\ pdbResult = NoPdbResult

PdbInit == pdb \in PdbInputs /\ pdbResult = NoPdbResult

\* a caller runs Win32Offsets::from_pdb_slice(pdb_slice)
FromPdbSlice ==
    /\ pdbResult = NoPdbResult
    /\ pdbResult' = from_pdb_slice(pdb)
    /\ UNCHANGED pdb
    /\ UNCHANGED nonPdbVars

PdbNext == FromPdbSlice

----------------------------------------------------------------------------
(* Single calls: values *)

\* what a call returned: Ok(val) or Err(err), and the calls it made in order
RetOk(v, made) == [kind |-> "Ok", err |-> "", val |-> Some(v), calls |-> made]
RetErr(e, made) == [kind |-> "Err", err |-> e, val |-> None, calls |-> made]
NoRet == [kind |-> "None", err |-> "", val |-> None, calls |-> <<>>]
NoArg == [fn |-> ""]

\* x32_pae::ARCH.page_size(), aarch64::ARCH.page_size()
PAGE_SIZE == 4096

\* x << n
shl(x, n) == x * 2^n

\* a ^ b on unsigned values
RECURSIVE xor(_, _)
xor(a, b) ==
    IF a = 0 /\ b = 0 THEN 0
    ELSE (((a % 2) + (b % 2)) % 2) + 2 * xor(a \div 2, b \div 2)

\* variant: the iterator keeps the last match
last_of(hits) == CHOOSE k \in hits : \A j \in hits : k >= j

\* Iterator::find / Iterator::next on the matches: the first one
first_of(hits) == CHOOSE k \in hits : \A j \in hits : k <= j

----------------------------------------------------------------------------
(* start_block::x86pae *)

\* u64::from_le_bytes(chunk[0..8])
RECURSIVE from_le_bytes(_)
from_le_bytes(c) == IF c = <<>> THEN 0 ELSE c[1] + 256 * from_le_bytes(Tail(c))

\* mem.chunks_exact(8).enumerate(): the qword at index i (from 0)
qword_at(mem, i) == from_le_bytes(SubSeq(mem, 8 * i + 1, 8 * i + 8))

\* variant: the self-map entries are checked, the rest of the page is not
check_page_head_only(addr, mem) ==
    \A i \in 0..((Len(mem) \div 8) - 1) :
        ~(i < 4 /\ qword_at(mem, i) # addr + shl(i * 8, 9) + 4097)

\* variant: the self-map stride is (i*8) << 7, with the entries 0x1000 apart
check_page_short_stride(addr, mem) ==
    \A i \in 0..((Len(mem) \div 8) - 1) :
        ~ \/ (i < 4 /\ qword_at(mem, i) # addr + shl(i * 8, 7) + (i * 4096) + 4097)
          \/ (i >= 4 /\ qword_at(mem, i) # 0)

\* check_page: false at the first qword that is not the self-map value
\* (i < 4) or not zero (i >= 4)
check_page(addr, mem) ==
    \A i \in 0..((Len(mem) \div 8) - 1) :
        ~ \/ (i < 4 /\ qword_at(mem, i) # addr + shl(i * 8, 9) + 4097)
          \/ (i >= 4 /\ qword_at(mem, i) # 0)

\* page_chunks(Address::NULL, page_size): the address of the k-th page
pae_addr(k) == (k - 1) * PAGE_SIZE

\* x86pae::find
x86pae_find(mem) ==
    LET hits == {k \in 1..Len(mem) : check_page(pae_addr(k), mem[k])} IN
    IF hits = {}
    THEN RetErr("NotFound", <<>>)
    ELSE RetOk([arch |-> "X86PAE", kernel_hint |-> 0, dtb |-> pae_addr(first_of(hits))],
               <<>>)

----------------------------------------------------------------------------
(* start_block::aarch64 *)

\* A page-table entry by its bit fields:
\* hi = bits 52..63, mid = bits 48..51, frame = bits 12..47, lo = bits 0..11
Pte(hi, mid, frame, lo) == [hi |-> hi, mid |-> mid, frame |-> frame, lo |-> lo]

\* addr.to_umem() as u64, in the same fields
AddrBits(addr) == Pte(0, 0, addr \div PAGE_SIZE, addr % PAGE_SIZE)

\* PHYS_BASE = mem::gb(1)
PHYS_BASE == 1073741824

\* max_mem = mem::gb(512), counted in 4 KiB frames
max_mem == 134217728

\* variant: the mask is !0xfff, the low 12 bits dropped and bits 52..63 kept
self_ref_low_masked(addr, a) ==
    [a EXCEPT !.lo = 0] = AddrBits(addr)

\* (a ^ 0xf03) & (!0u64 >> 12) == addr: the xor touches bits 0..11 only and
\* the mask clears bits 52..63
self_ref(addr, a) ==
    [a EXCEPT !.lo = xor(a.lo, 3843), !.hi = 0] = AddrBits(addr)

\* mem[0x800..]: the upper half of the page, as qwords
upper_half(page) == SubSeq(page, (Len(page) \div 2) + 1, Len(page))

\* find_pt
find_pt(addr, page) ==
    LET pte == page[1]
        upper == upper_half(page)
    IN
    IF pte.lo # 3843 \/ pte.frame > max_mem THEN None
    ELSE IF ~ \E k \in DOMAIN upper : self_ref(addr, upper[k]) THEN None
    ELSE IF Cardinality({k \in DOMAIN upper : upper[k].lo = 1795}) < 6 THEN None
    ELSE Some(addr)

\* PHYS_BASE + i * page_size for the k-th page (i = k - 1)
a64_addr(k) == PHYS_BASE + (k - 1) * PAGE_SIZE

\* aarch64::find
aarch64_find(mem) ==
    LET hits == {k \in 1..Len(mem) : find_pt(a64_addr(k), mem[k]) # None} IN
    IF hits = {}
    THEN RetErr("NotFound", <<>>)
    ELSE RetOk([arch |-> "AArch64", kernel_hint |-> 0,
                dtb |-> find_pt(a64_addr(first_of(hits)), mem[first_of(hits)])[1]],
               <<>>)

----------------------------------------------------------------------------
(* kernel::ntos *)

\* one call made by the function under examination, with its argument
Call(fn, a) == [fn |-> fn, a |-> a]

\* ArchitectureObj::from(start_block.arch).bits()
arch_bits(arch) == IF arch \in {"X64", "AArch64"} THEN 64 ELSE 32

\* variant: the probe is tried whatever the hint
hint_always_set(h) == TRUE

\* !start_block.kernel_hint.is_null()
hint_is_set(h) == h # 0

\* ntos::find.  a.va_hint, a.x64 and a.x86 are what x64::find_with_va_hint,
\* x64::find and x86::find return on the memory at hand
ntos_find(a) ==
    IF arch_bits(a.block.arch) = 64
    THEN LET probe == hint_is_set(a.block.kernel_hint)
             c1 == IF probe THEN <<Call("x64::find_with_va_hint", None)>> ELSE <<>>
             c2 == Append(c1, Call("x64::find", None))
         IN
         IF probe /\ a.va_hint.kind = "Ok" THEN RetOk(a.va_hint.val[1], c1)
         ELSE IF a.x64.kind = "Ok" THEN RetOk(a.x64.val[1], c2)
         ELSE RetErr("ProcessNotFound", c2)
    ELSE IF arch_bits(a.block.arch) = 32
    THEN IF a.x86.kind = "Ok"
         THEN RetOk(a.x86.val[1], <<Call("x86::find", None)>>)
         ELSE RetErr("ProcessNotFound", <<Call("x86::find", None)>>)
    ELSE RetErr("ProcessNotFound", <<>>)

\* {:X}: the upper-case hex digits of n, no padding
RECURSIVE UpperHex(_)
UpperHex(n) ==
    LET digits == <<"0", "1", "2", "3", "4", "5", "6", "7", "8", "9",
                    "A", "B", "C", "D", "E", "F">>
    IN IF n < 16 THEN digits[n + 1]
       ELSE UpperHex(n \div 16) \o digits[(n % 16) + 1]

\* debug directory entries: e.entry() failed, an entry that is no CodeView
\* record, a CodeView 2.0 (NB10) record, a CodeView 7.0 (RSDS) record
\* ("Err", "Other", "Cv20", "Cv70"), with the signature, age and pdb file
\* name of a CodeView record and whether that name is UTF-8
DebugEntry(kind, sig, age, name, utf8) ==
    [kind |-> kind, sig |-> sig, age |-> age, name |-> name, utf8 |-> utf8]

\* variant: only a 7.0 record counts as a CodeView entry
is_cv70(e) == e.kind = "Cv70"

\* e.as_code_view().is_some()
as_code_view_is_some(e) == e.kind \in {"Cv20", "Cv70"}

\* ntos::find_guid on the image at kernel_base
find_guid(im) ==
    IF ~im.readable THEN RetErr("PeImage", <<>>)
    ELSE IF ~im.pe_ok \/ im.debug = None THEN RetErr("InvalidExeFile", <<>>)
    ELSE LET entries == SelectSeq(im.debug[1], LAMBDA e : e.kind # "Err")
             cvs == {k \in DOMAIN entries : as_code_view_is_some(entries[k])}
         IN
         IF cvs = {} THEN RetErr("InvalidExeFile", <<>>)
         ELSE LET code_view == entries[first_of(cvs)] IN
              IF code_view.kind = "Cv20" THEN RetErr("InvalidExeFile", <<>>)
              ELSE IF ~code_view.utf8 THEN RetErr("Encoding", <<>>)
              ELSE RetOk([file_name |-> code_view.name,
                          guid |-> code_view.sig \o UpperHex(code_view.age)],
                         <<>>)

\* a memory read: all of it, part of it (the rest left as it was), or none
\* ("Ok", "Partial", "Err"), with the data in the buffer afterwards
MemRead(kind, v) == [kind |-> kind, data |-> v]

\* `?` on a PartialResult: any error, a partial read included, is returned
full_read_fails(r) == r.kind # "Ok"

\* .data_part()?: a partial read gives its data, only a plain error is returned
data_part_fails(r) == r.kind = "Err"

\* get_export: Ok for Export::Symbol, Err for a missing or forwarded export
get_export_ok(e) == e = "symbol"

\* u32::from_le_bytes(buf[i..i + 4]) as <<upper 16 bits, lower 16 bits>>
u32_le(b, i) == << b[i + 3] + 256 * b[i + 4], b[i + 1] + 256 * b[i + 2] >>

\* x & 0xFFFFF on such a pair
low20(x) == << x[1] % 16, x[2] >>

\* variant: the third predicate writes the minor version
rtl_step_minor_written(b, i, v) ==
    LET v1 == IF v[1] = 0 /\ v[2] = 0 /\ u32_le(b, i) = <<1089, 51016>>
              THEN << b[i + 5] + 256 * b[i + 6], b[i + 6] % 16 >>
              ELSE v
        v2 == IF v1[1] = 0 /\ low20(u32_le(b, i)) = <<4, 16839>>
              THEN << b[i + 4], v1[2] >>
              ELSE v1
        v3 == IF v2[2] = 0 /\ low20(u32_le(b, i)) = <<8, 16839>>
              THEN << v2[1], b[i + 4] >>
              ELSE v2
    IN v3

\* one pass of the loop body of the RtlGetVersion fallback at offset i;
\* v is <<nt_major_version, nt_minor_version>>
rtl_step(b, i, v) ==
    LET v1 == IF v[1] = 0 /\ v[2] = 0 /\ u32_le(b, i) = <<1089, 51016>>
              THEN << b[i + 5] + 256 * b[i + 6], b[i + 6] % 16 >>
              ELSE v
        v2 == IF v1[1] = 0 /\ low20(u32_le(b, i)) = <<4, 16839>>
              THEN << b[i + 4], v1[2] >>
              ELSE v1
        v3 == IF v2[2] = 0 /\ low20(u32_le(b, i)) = <<8, 16839>>
              THEN << b[i + 4], v2[2] >>
              ELSE v2
    IN v3

\* for i in 0..0xf0 over a buffer of 0x100 bytes: the last 16 bytes start no pass
RECURSIVE rtl_scan(_, _, _)
rtl_scan(b, i, v) ==
    IF i >= Len(b) - 16 THEN v ELSE rtl_scan(b, i + 1, rtl_step(b, i, v))

\* variant: the version is built with the minor number in the build field
version_new_swapped(major, minor, build) == <<major, build, minor>>

\* Win32Version::new(nt_major_version, nt_minor_version, nt_build_number)
version_new(major, minor, build) == <<major, minor, build>>

\* ntos::find_winver on the image at kernel_base.  w.build, w.major, w.minor
\* and w.buf are the reads of NtBuildNumber, of the two KUSER_SHARED_DATA
\* fields and of the code at RtlGetVersion
find_winver(w) ==
    IF ~w.readable THEN RetErr("PeImage", <<>>)
    ELSE IF ~w.pe_ok THEN RetErr("InvalidExeFile", <<>>)
    ELSE IF ~get_export_ok(w.nt_build_number) THEN RetErr("ExportNotFound", <<>>)
    ELSE IF full_read_fails(w.build) THEN RetErr("Read", <<>>)
    ELSE IF w.build.data = 0 THEN RetErr("InvalidExeFile", <<>>)
    ELSE IF data_part_fails(w.major) THEN RetErr("Read", <<>>)
    ELSE IF data_part_fails(w.minor) THEN RetErr("Read", <<>>)
    ELSE IF w.major.data = 0 /\ get_export_ok(w.rtl_get_version)
         THEN IF data_part_fails(w.buf) THEN RetErr("Read", <<>>)
              ELSE LET v == rtl_scan(w.buf.data, 0, <<0, 0>>) IN
                   RetOk(version_new(v[1], v[2], w.build.data), <<>>)
         ELSE RetOk(version_new(w.major.data, w.minor.data, w.build.data), <<>>)

----------------------------------------------------------------------------
(* Win32KernelBuilder::build *)

\* variant: the VAT cache closure is called before the page cache closure
cache_calls_vat_first(arch) ==
    << Call("build_vat_cache", Some(arch)), Call("build_page_cache", Some(arch)) >>

\* (self.build_page_cache)(self.connector, kernel_info.os_info.arch), then
\* (self.build_vat_cache)(vat, kernel_info.os_info.arch)
cache_calls(arch) ==
    << Call("build_page_cache", Some(arch)), Call("build_vat_cache", Some(arch)) >>

\* the scanner setters build() calls for the fields that are Some
setter_calls(b) ==
    (IF b.arch # None THEN <<Call("scanner.arch", b.arch)>> ELSE <<>>)
    \o (IF b.kernel_hint # None THEN <<Call("scanner.kernel_hint", b.kernel_hint)>> ELSE <<>>)
    \o (IF b.dtb # None THEN <<Call("scanner.dtb", b.dtb)>> ELSE <<>>)

\* Win32KernelBuilder::build.  b.scan and b.offsets are what
\* kernel_scanner.scan() and self.build_offsets(&kernel_info) return
build(b) ==
    LET c1 == Append(setter_calls(b), Call("scan", None))
        c2 == Append(c1, Call("build_offsets", None))
    IN
    IF b.scan.kind # "Ok" THEN RetErr("scan", c1)
    ELSE IF b.offsets.kind # "Ok" THEN RetErr("build_offsets", c2)
    ELSE RetOk([kernel_info |-> b.scan.val[1], offsets |-> b.offsets.val[1],
                page_cache_arch |-> b.scan.val[1].arch,
                vat_cache_arch |-> b.scan.val[1].arch],
               c2 \o cache_calls(b.scan.val[1].arch))

----------------------------------------------------------------------------
(* kernel::ntos::x64: find_with_va_hint and find_with_va *)

\* a umem (u64) by its bit fields:
\* h = bits 48..63, m = bits 24..47, l = bits 0..23
U64(h, m, l) == [h |-> h, m |-> m, l |-> l]

\* a + b on u64: the wrapped sum, and whether it left the 64-bit range
u64_add(a, b) ==
    LET l == a.l + b.l
        m == a.m + b.m + (l \div 2^24)
        h == a.h + b.h + (m \div 2^24)
    IN [wrapped |-> h >= 2^16, v |-> U64(h % 2^16, m % 2^24, l % 2^24)]

\* a - b on u64: the wrapped difference, and whether it left the range
u64_sub(a, b) ==
    LET l == a.l - b.l
        m == a.m - b.m - (IF l < 0 THEN 1 ELSE 0)
        h == a.h - b.h - (IF m < 0 THEN 1 ELSE 0)
    IN [wrapped |-> h < 0,
        v |-> U64((h + 2^16) % 2^16, (m + 2^24) % 2^24, (l + 2^24) % 2^24)]

\* a > b on u64
u64_gt(a, b) ==
    \/ a.h > b.h
    \/ a.h = b.h /\ a.m > b.m
    \/ a.h = b.h /\ a.m = b.m /\ a.l > b.l

\* mem::mb(n) for n < 16
mb(n) == U64(0, 0, n * 2^20)

\* mem::mb(16)
mb16 == U64(0, 1, 0)

\* x & !0x0001_ffff
and_not_0x1ffff(x) == [x EXCEPT !.l = x.l - (x.l % 2^17)]

\* a panic of the running thread, after the calls made so far
RetPanic(what, made) == [kind |-> "Panic", err |-> what, val |-> None, calls |-> made]

\* variant: the header test is e_lfanew < 0x800
e_lfanew_below_0x800(x) == x[1] = 0 /\ x[2] < 2048

\* p.e_lfanew <= 0x800 on a u32 held as <<upper 16 bits, lower 16 bits>>
e_lfanew_ok(x) == x[1] = 0 /\ x[2] <= 2048

\* view.read::<IMAGE_DOS_HEADER>(0) on a little-endian host, and the two
\* filters: e_magic (bytes 0..1) == 0x5a4d, e_lfanew (bytes 0x3c..0x3f) <= 0x800
dos_header_ok(p) ==
    /\ from_le_bytes(p.e_magic) = 23117
    /\ e_lfanew_ok(u32_le(p.e_lfanew, 0))

\* pehelper::try_get_pe_name(..).unwrap_or_default() == "ntoskrnl.exe":
\* p.name is what try_get_pe_name returns at the page
name_is_ntoskrnl(p) == p.name.kind = "Ok" /\ p.name.val[1] = "ntoskrnl.exe"

\* the pages of memory that fall into the 2 MiB buffer read at va_base; what
\* lies beyond the end of the address space is not read
window_pages(m, va_base) ==
    {p \in m.pages :
        LET d == u64_sub(p.at, va_base).v IN
        /\ d.h = 0 /\ d.m = 0 /\ d.l < 2^21
        /\ ~ u64_add(va_base, d).wrapped}

\* buf.chunks_exact(page_size).enumerate(): the index of the chunk of page p
chunk_index(p, va_base) == u64_sub(p.at, va_base).v.l \div PAGE_SIZE

\* virt_mem.read_raw_into(va_base, &mut buf): m.failing are the bases at which
\* nothing can be read, m.partial those at which a part of the window is read
read_raw_into(m, va_base) ==
    MemRead(IF va_base \in m.failing THEN "Err"
            ELSE IF va_base \in m.partial THEN "Partial" ELSE "Ok", None)

\* find_with_va.  m.pages are the pages of memory that are not all zero
find_with_va(m, va_base) ==
    IF data_part_fails(read_raw_into(m, va_base)) THEN RetErr("Read", <<>>)
    ELSE LET hits == {chunk_index(p, va_base) :
                        p \in {q \in window_pages(m, va_base) :
                                  dos_header_ok(q) /\ name_is_ntoskrnl(q)}}
         IN
         IF hits = {} THEN RetErr("ProcessNotFound", <<>>)
         ELSE RetOk(u64_add(va_base, U64(0, 0, first_of(hits) * PAGE_SIZE)).v, <<>>)

\* the loop of find_with_va_hint from va_base on.  w.overflow_checks is the
\* build profile: an arithmetic overflow panics when it is on and wraps when
\* it is off.  w.pe_size is what try_get_pe_size returns
RECURSIVE va_hint_loop(_, _, _)
va_hint_loop(w, va_base, made) ==
    LET end == u64_add(va_base, mb16) IN
    IF end.wrapped /\ w.overflow_checks
    THEN RetPanic("attempt to add with overflow", made)
    ELSE IF ~ u64_gt(end.v, w.hint) THEN RetErr("ProcessNotFound", made)
    ELSE LET probe == find_with_va(w.mem, va_base)
             made1 == Append(made, Call("find_with_va", va_base))
             next == u64_sub(va_base, mb(2))
         IN
         IF probe.kind = "Ok"
         THEN IF w.pe_size.kind = "Ok"
              THEN RetOk(<<probe.val[1], w.pe_size.val[1]>>, made1)
              ELSE RetErr("PeSize", made1)
         ELSE IF next.wrapped /\ w.overflow_checks
         THEN RetPanic("attempt to subtract with overflow", made1)
         ELSE va_hint_loop(w, next.v, made1)

\* find_with_va_hint
find_with_va_hint(w) == va_hint_loop(w, and_not_0x1ffff(w.hint), <<>>)

----------------------------------------------------------------------------
(* Single calls: the inputs of the model and the actions *)

\* the pages of the scanned buffer that may hold something, by position
\* (page 17 of the x86-PAE buffer is physical address 0x10000)
MarkedAt == {1, 2, 17, SbPages}

\* an x86-PAE page at address A: entry i of the first four is the self-map
\* value ("map"), the value with the extra (i*8) << 7 stride ("low") or 0,
\* and qword `tail`, if any, is 1; the page is held as its bytes
PaeEntry(A, i, c) ==
    CASE c = "map" -> A + 4096 * (i + 1) + 1
      [] c = "low" -> A + 1024 * i + 4096 * (i + 1) + 1
      [] OTHER -> 0

\* the n bytes of v, least significant first
RECURSIVE ToLe(_, _)
ToLe(v, n) == IF n = 0 THEN <<>> ELSE <<v % 256>> \o ToLe(v \div 256, n - 1)

\* the bytes of a page given its qwords
PageBytes(q) == [b \in 1..(8 * Len(q)) |-> ToLe(q[((b - 1) \div 8) + 1], 8)[((b - 1) % 8) + 1]]

PaePage(A, cs, tail) ==
    PageBytes([k \in 1..PageQwords |->
        IF k <= 4 THEN PaeEntry(A, k - 1, cs[k]) ELSE IF k = tail THEN 1 ELSE 0])

PaeFew(A) ==
    {PaePage(A, [i \in 1..4 |-> "map"], 0),
     PaePage(A, [i \in 1..4 |-> "low"], 0),
     PaePage(A, [i \in 1..4 |-> "map"], PageQwords)}

PaeBuffers ==
    LET zero == [k \in 1..(8 * PageQwords) |-> 0] IN
    {[k \in 1..SbPages |->
        IF k = a THEN PaePage(pae_addr(a), cs, t) ELSE zero] :
        a \in MarkedAt, cs \in [1..4 -> {"map", "low", "zero"}],
        t \in {0, 5, PageQwords}}
    \cup
    UNION {{[k \in 1..SbPages |-> IF k = a THEN p ELSE IF k = b THEN q ELSE zero] :
                p \in PaeFew(pae_addr(a)), q \in PaeFew(pae_addr(b))} :
           a \in MarkedAt, b \in MarkedAt}

\* an AArch64 page at frame p: its first entry, one candidate self reference
\* at the start of the upper half, then n entries with low bits 0x703
A64Page(first, sc, n) ==
    LET half == PageQwords \div 2 IN
    [k \in 1..PageQwords |->
        IF k = 1 THEN first
        ELSE IF k = half + 1 THEN sc
        ELSE IF k > half + 1 /\ k <= half + 1 + n THEN Pte(0, 0, k, 1795)
        ELSE Pte(0, 0, 0, 0)]

A64Firsts ==
    {Pte(0, m, f, lo) : m \in {0, 1}, f \in {1, max_mem, max_mem + 1},
                        lo \in {3843, 1795}}

A64SelfRefs(p) ==
    {Pte(0, 0, p, 3843), Pte(0, 0, p, 1795), Pte(1, 0, p, 3843),
     Pte(0, 1, p, 3843), Pte(0, 0, p + 1, 3843), Pte(0, 0, 0, 0)}

A64Few(p) ==
    {A64Page(Pte(0, 0, 1, 3843), Pte(0, 0, p, 3843), 6),
     A64Page(Pte(0, 0, 1, 3843), Pte(0, 0, p, 3843), 5),
     A64Page(Pte(0, 0, 1, 3843), Pte(0, 0, p, 1795), 6)}

A64Buffers ==
    LET zero == [k \in 1..PageQwords |-> Pte(0, 0, 0, 0)]
        frame(k) == a64_addr(k) \div PAGE_SIZE
    IN
    {[k \in 1..SbPages |-> IF k = a THEN A64Page(f, sc, n) ELSE zero] :
        a \in MarkedAt, f \in A64Firsts,
        sc \in UNION {A64SelfRefs(frame(b)) : b \in MarkedAt}, n \in {5, 6}}
    \cup
    UNION {{[k \in 1..SbPages |-> IF k = a THEN p ELSE IF k = b THEN q ELSE zero] :
                p \in A64Few(frame(a)), q \in A64Few(frame(b))} :
           a \in MarkedAt, b \in MarkedAt}

\* start blocks of every architecture and what the three strategies return
NtosInputs ==
    [fn : {"ntos::find"},
     block : [arch : {"X64", "X86", "X86PAE", "AArch64"}, kernel_hint : Hints,
              dtb : {4096}],
     va_hint : {RErr, ROk([base |-> 1048576, size |-> 8192])},
     x64 : {RErr, ROk([base |-> 2097152, size |-> 8192])},
     x86 : {RErr, ROk([base |-> 4194304, size |-> 4096])}]

DebugEntries ==
    {DebugEntry("Err", "", 0, "", TRUE),
     DebugEntry("Other", "", 0, "", TRUE),
     DebugEntry("Cv20", "3B9ACA00", 1, "ntoskrnl.pdb", TRUE),
     DebugEntry("Cv70", "ECE191A2", 1, "ntkrnlmp.pdb", TRUE),
     DebugEntry("Cv70", "684DA42A", 26, "ntkrpamp.pdb", TRUE),
     DebugEntry("Cv70", "0BADF00D", 2, "", FALSE)}

\* debug directories of at most MaxDebug entries
RECURSIVE SeqsUpTo(_, _)
SeqsUpTo(S, n) ==
    IF n = 0 THEN {<<>>}
    ELSE LET prev == SeqsUpTo(S, n - 1) IN
         prev \cup {Append(q, x) : q \in prev, x \in S}

GuidImages ==
    {[readable |-> FALSE, pe_ok |-> FALSE, debug |-> None],
     [readable |-> TRUE, pe_ok |-> FALSE, debug |-> None],
     [readable |-> TRUE, pe_ok |-> TRUE, debug |-> None]}
    \cup {[readable |-> TRUE, pe_ok |-> TRUE, debug |-> Some(d)] :
            d \in SeqsUpTo(DebugEntries, MaxDebug)}

\* the code at RtlGetVersion: zeros, or `48 C7 41 04 0A 00` at its start
RtlBuffers ==
    {[k \in 1..RtlBufLen |-> 0],
     [k \in 1..RtlBufLen |-> IF k <= 6 THEN <<72, 199, 65, 4, 10, 0>>[k] ELSE 0]}

\* pieces of code at RtlGetVersion: `48 C7 41 04 imm16` (three values),
\* `C7 41 04 imm8`, `C7 41 08 imm8` (two values), and runs of zero bytes
RtlSnippets ==
    {<<72, 199, 65, 4, 10, 0>>, <<72, 199, 65, 4, 0, 0>>, <<72, 199, 65, 4, 6, 3>>,
     <<199, 65, 4, 10>>, <<199, 65, 8, 1>>, <<199, 65, 8, 0>>,
     [k \in 1..6 |-> 0], [k \in 1..(RtlBufLen - 17) |-> 0],
     [k \in 1..(RtlBufLen - 16) |-> 0]}

\* up to three pieces in a row, cut or filled with zeros to the buffer length
RtlScanBuffers ==
    {[k \in 1..RtlBufLen |-> IF k <= Len(q) THEN q[k] ELSE 0] :
        q \in {x \o y \o z : x \in RtlSnippets \cup {<<>>},
                              y \in RtlSnippets \cup {<<>>},
                              z \in RtlSnippets \cup {<<>>}}}

WinverInputs ==
    [fn : {"find_winver"}, readable : {TRUE}, pe_ok : {TRUE},
     nt_build_number : {"missing", "forward", "symbol"},
     rtl_get_version : {"missing", "symbol"},
     build : {MemRead("Err", 0), MemRead("Partial", 19041), MemRead("Ok", 0), MemRead("Ok", 19041)},
     major : {MemRead("Err", 0), MemRead("Partial", 0), MemRead("Ok", 0), MemRead("Ok", 10)},
     minor : {MemRead("Err", 0), MemRead("Partial", 0), MemRead("Ok", 0), MemRead("Ok", 1)},
     buf : {MemRead("Err", 0)} \cup {MemRead("Ok", b) : b \in RtlBuffers}
                     \cup {MemRead("Partial", b) : b \in RtlBuffers}]
    \cup
    [fn : {"find_winver"}, readable : BOOLEAN, pe_ok : {FALSE},
     nt_build_number : {"symbol"}, rtl_get_version : {"symbol"},
     build : {MemRead("Ok", 19041)}, major : {MemRead("Ok", 10)}, minor : {MemRead("Ok", 0)},
     buf : {MemRead("Err", 0)}]
    \cup
    [fn : {"find_winver"}, readable : {TRUE}, pe_ok : {TRUE},
     nt_build_number : {"symbol"}, rtl_get_version : {"symbol"},
     build : {MemRead("Ok", 19041)},
     major : {MemRead("Ok", 0), MemRead("Partial", 0)},
     minor : {MemRead("Ok", 0), MemRead("Ok", 1)},
     buf : {MemRead(k, b) : k \in {"Ok", "Partial"}, b \in RtlScanBuffers}]

BuildInputs ==
    [fn : {"build"},
     arch : {None, Some("X64"), Some("X86")},
     kernel_hint : {None, Some(63488)},
     dtb : {None, Some(4096)},
     scan : {RErr} \cup {ROk([arch |-> a, dtb |-> 4096]) :
                            a \in {"X64", "X86", "X86PAE", "AArch64"}},
     offsets : {RErr, ROk("offsets")}]

\* a page that is not all zero: its address, the bytes of e_magic and of
\* e_lfanew, and what try_get_pe_name returns at it
DosPage(at, kind) ==
    [at |-> at,
     e_magic |-> IF kind = "ZM" THEN <<90, 77>> ELSE <<77, 90>>,
     e_lfanew |-> IF kind = "lfanew 0x801" THEN <<1, 8, 0, 0>>
                  ELSE IF kind = "lfanew 0x10000" THEN <<0, 0, 1, 0>>
                  ELSE IF kind = "kernel, lfanew 0x800" THEN <<0, 8, 0, 0>>
                  ELSE <<0, 1, 0, 0>>,
     name |-> IF kind = "no name" THEN RErr
              ELSE IF kind = "hal.dll" THEN ROk("hal.dll")
              ELSE ROk("ntoskrnl.exe")]

DosPageKinds ==
    {"kernel", "kernel, lfanew 0x800", "lfanew 0x801", "lfanew 0x10000", "ZM",
     "hal.dll", "no name"}

\* the window probed by find_with_va and the chunks that hold a page; chunk
\* WindowPages lies past the end of the window
WindowBase == U64(65535, 16252946, 2097152)
WindowPages == 512
ChunkAt == {0, 1, WindowPages - 1, WindowPages}

VaInputs ==
    LET at(i) == u64_add(WindowBase, U64(0, 0, i * PAGE_SIZE)).v IN
    {[fn |-> "x64::find_with_va", va_base |-> WindowBase,
      mem |-> [pages |-> ps, failing |-> f, partial |-> pt]] :
        ps \in {{}} \cup {{DosPage(at(a), k)} : a \in ChunkAt, k \in DosPageKinds}
               \cup UNION {{{DosPage(at(ab[1]), k), DosPage(at(ab[2]), j)} :
                                k \in DosPageKinds, j \in DosPageKinds} :
                           ab \in {x \in ChunkAt \X ChunkAt : x[1] # x[2]}},
        f \in {{}, {WindowBase}}, pt \in {{}, {WindowBase}}}

\* kernel hints: a kernel address, 16 MiB and the addresses around it, small
\* user-supplied values, and values within 16 MiB of 2^64
VaHints ==
    {U64(65535, 16252946, 3430008),
     U64(0, 1, 0), U64(0, 1, 131071), U64(0, 0, 16777215),
     U64(0, 0, 1048576), U64(0, 0, 4096),
     U64(65535, 16777214, 16777215), U64(65535, 16777215, 0),
     U64(65535, 16777215, 1048576)}

\* how far below hint & !0x1ffff a page lies: in the window of probe 0, 1, 7
\* or 8, at its first or its last chunk
ProbeSteps == {mb(0), mb(2), mb(14), mb16}

VaHintInputs ==
    UNION {
        LET base0 == and_not_0x1ffff(h)
            at(s, j) == u64_add(u64_sub(base0, s).v, U64(0, 0, j * PAGE_SIZE)).v
            spots == {at(s, j) : s \in ProbeSteps, j \in {0, WindowPages - 1}}
        IN
        {[fn |-> "x64::find_with_va_hint", hint |-> h, overflow_checks |-> oc,
          pe_size |-> sz,
          mem |-> [pages |-> ps, failing |-> f, partial |-> {u64_sub(base0, mb(2)).v}]] :
            ps \in {{}} \cup {{DosPage(a, "kernel")} : a \in spots}
                   \cup {{DosPage(ab[1], "kernel"), DosPage(ab[2], k)} :
                            ab \in {x \in spots \X spots : x[1] # x[2]},
                            k \in {"kernel", "no name"}},
            f \in {{}, {base0}},
            oc \in BOOLEAN, sz \in {RErr, ROk(8192)}} :
        h \in VaHints}

CallInputs ==
    {[fn |-> "x86pae::find", mem |-> m] : m \in PaeBuffers}
    \cup {[fn |-> "aarch64::find", mem |-> m] : m \in A64Buffers}
    \cup NtosInputs
    \cup {[fn |-> "find_guid", image |-> im] : im \in GuidImages}
    \cup WinverInputs
    \cup BuildInputs
    \cup VaInputs
    \cup VaHintInputs

CallIdle == arg = NoArg /\ ret = NoRet

CallInit == arg \in CallInputs /\ ret = NoRet

\* x86pae::find on the buffer
X86paeFind ==
    /\ arg.fn = "x86pae::find" /\ ret = NoRet
    /\ ret' = x86pae_find(arg.mem)
    /\ UNCHANGED arg
    /\ UNCHANGED nonCallVars

\* aarch64::find on the buffer
Aarch64Find ==
    /\ arg.fn = "aarch64::find" /\ ret = NoRet
    /\ ret' = aarch64_find(arg.mem)
    /\ UNCHANGED arg
    /\ UNCHANGED nonCallVars

\* ntos::find on the start block
NtosFindCall ==
    /\ arg.fn = "ntos::find" /\ ret = NoRet
    /\ ret' = ntos_find(arg)
    /\ UNCHANGED arg
    /\ UNCHANGED nonCallVars

\* ntos::find_guid on the kernel image
FindGuidCall ==
    /\ arg.fn = "find_guid" /\ ret = NoRet
    /\ ret' = find_guid(arg.image)
    /\ UNCHANGED arg
    /\ UNCHANGED nonCallVars

\* ntos::find_winver on the kernel image
FindWinverCall ==
    /\ arg.fn = "find_winver" /\ ret = NoRet
    /\ ret' = find_winver(arg)
    /\ UNCHANGED arg
    /\ UNCHANGED nonCallVars

\* Win32KernelBuilder::build
Build ==
    /\ arg.fn = "build" /\ ret = NoRet
    /\ ret' = build(arg)
    /\ UNCHANGED arg
    /\ UNCHANGED nonCallVars

\* x64::find_with_va on one 2 MiB window
FindWithVa ==
    /\ arg.fn = "x64::find_with_va" /\ ret = NoRet
    /\ ret' = find_with_va(arg.mem, arg.va_base)
    /\ UNCHANGED arg
    /\ UNCHANGED nonCallVars

\* x64::find_with_va_hint on the start block's kernel hint
FindWithVaHint ==
    /\ arg.fn = "x64::find_with_va_hint" /\ ret = NoRet
    /\ ret' = find_with_va_hint(arg)
    /\ UNCHANGED arg
    /\ UNCHANGED nonCallVars

CallNext ==
    \/ X86paeFind
    \/ Aarch64Find
    \/ NtosFindCall
    \/ FindGuidCall
    \/ FindWinverCall
    \/ Build
    \/ FindWithVa
    \/ FindWithVaHint

----------------------------------------------------------------------------
(* read_to_end with the download_progress feature *)

ProgressIdle ==
    /\ rpc = "idle" /\ wpc = "none"
    /\ finished = FALSE /\ total = 0 /\ position = 0
    /\ rteResult = NoResult

\* total, pb and finished are set up and std::thread::spawn starts the thread
Spawn ==
    /\ rpc = "idle"
    /\ rpc' = "reading"
    /\ wpc' = "loop"
    /\ UNCHANGED <<finished, total, position, rteResult>>
    /\ UNCHANGED nonProgressVars

\* reader.read_to_end: one more chunk arrives and the ProgressReader callback
\* adds it to total
ReadChunk ==
    /\ rpc = "reading"
    /\ total < MaxChunks
    /\ total' = total + 1
    /\ UNCHANGED <<rpc, wpc, finished, position, rteResult>>
    /\ UNCHANGED nonProgressVars

\* reader.read_to_end returns Ok at the end of the body
ReadEof ==
    /\ rpc = "reading"
    /\ rpc' = "store"
    /\ UNCHANGED <<wpc, finished, total, position, rteResult>>
    /\ UNCHANGED nonProgressVars

\* reader.read_to_end returns Err: map_err(..)? returns the Http error
ReadFail ==
    /\ rpc = "reading"
    /\ rpc' = "done"
    /\ rteResult' = Err("Http")
    /\ UNCHANGED <<wpc, finished, total, position>>
    /\ UNCHANGED nonProgressVars

\* finished.store(true, Ordering::Relaxed)
StoreFinished ==
    /\ rpc = "store"
    /\ finished' = TRUE
    /\ rpc' = "join"
    /\ UNCHANGED <<wpc, total, position, rteResult>>
    /\ UNCHANGED nonProgressVars

\* variant: the caller does not wait for the thread
join_returns_at_once(w) == TRUE

\* thread.join() returns once the thread has terminated
join_returns(w) == w = "exited"

\* thread.join().unwrap(); Ok(buffer)
ThreadJoin ==
    /\ rpc = "join"
    /\ join_returns(wpc)
    /\ rpc' = "done"
    /\ rteResult' = Ok([i \in 1..total |-> i])
    /\ UNCHANGED <<wpc, finished, total, position>>
    /\ UNCHANGED nonProgressVars

\* the thread: while !finished.load() { pb.set_position(total.load()); sleep }
WorkerPoll ==
    /\ wpc = "loop"
    /\ IF finished
       THEN wpc' = "finishing" /\ UNCHANGED position
       ELSE position' = total /\ UNCHANGED wpc
    /\ UNCHANGED <<rpc, finished, total, rteResult>>
    /\ UNCHANGED nonProgressVars

\* the thread: pb.finish_with_message("downloaded"), then it ends
WorkerFinish ==
    /\ wpc = "finishing"
    /\ wpc' = "exited"
    /\ UNCHANGED <<rpc, finished, total, position, rteResult>>
    /\ UNCHANGED nonProgressVars

ProgressNext ==
    \/ Spawn
    \/ ReadChunk
    \/ ReadEof
    \/ ReadFail
    \/ StoreFinished
    \/ ThreadJoin
    \/ WorkerPoll
    \/ WorkerFinish

----------------------------------------------------------------------------
(* Specifications: one per part, the other parts at rest *)

\* an empty cache, a fresh scanner, no PDB handed in yet, no call under way
Init == StoreInit /\ ScanInit /\ PdbIdle /\ CallIdle /\ ProgressIdle

\* the same, with a PDB drawn from the inputs
InitWithPdb == StoreInit /\ ScanInit /\ PdbInit /\ CallIdle /\ ProgressIdle

\* the same, with a function and its input drawn from the inputs
InitWithCall == StoreInit /\ ScanInit /\ PdbIdle /\ CallInit /\ ProgressIdle

StoreSpec == Init /\ [][StoreNext]_vars

ScanSpec == Init /\ [][ScanNext]_vars

PdbSpec == InitWithPdb /\ [][PdbNext]_vars

CallSpec == InitWithCall /\ [][CallNext]_vars

ProgressSpec == Init /\ [][ProgressNext]_vars

----------------------------------------------------------------------------
(* SymbolStore: properties *)

\* every I/O call so far succeeded and no two loads ran at the same time
CleanSequentialRun == ~fsFailed /\ ~netFailed /\ ~overlap

\* an earlier load() of the run went through a store with a cache path
EarlierCachedLoad == \E i \in 1..(Len(calls) - 1) : calls[i]

\* C1: with a cache path configured and no I/O failure, in a sequence of loads
\* of one (file_name, guid) that starts from an empty cache, the first cached
\* load is the only one that downloads and writes the cache file, every later
\* cached load returns the cached bytes without download or write, and a load
\* through a no_cache() store downloads once and makes no call on the cache;
\* after the sequence cached, cached, no_cache: 2 network hits, 1 cache write.
C1_CacheHitsSkipDownload ==
    CleanSequentialRun =>
        /\ \A t \in Threads :
            pc[t] = "ret" =>
                /\ result[t] = Ok(PdbBytes)
                /\ cached[t] /\ ~EarlierCachedLoad =>
                        /\ stat[t].downloads = 1 /\ Len(stat[t].req) = 1
                        /\ stat[t].writes = 1 /\ stat[t].reads = 0
                /\ cached[t] /\ EarlierCachedLoad =>
                        /\ stat[t].downloads = 0 /\ Len(stat[t].req) = 0
                        /\ stat[t].writes = 0 /\ ~stat[t].modified
                        /\ stat[t].reads = 1
                /\ ~cached[t] =>
                        /\ stat[t].downloads = 1 /\ Len(stat[t].req) = 1
                        /\ ~stat[t].touched /\ ~stat[t].modified
                        /\ stat[t].reads = 0 /\ stat[t].writes = 0
        /\ (calls = <<TRUE, TRUE, FALSE>> /\ \A t \in Threads : pc[t] = "idle") =>
                netHits = 2 /\ cacheWrites = 1

C1_Witness ==
    /\ CleanSequentialRun
    /\ calls = <<TRUE, TRUE, FALSE>>
    /\ \A t \in Threads : pc[t] = "idle"
    /\ netHits = 2

\* C2: a cached load that misses downloads the PDB, has the directory
\* <cache_path>/<file_name> in place, writes <cache_path>/<file_name>/<guid>
\* and returns the downloaded bytes; when a load that no other load overlapped
\* returns Ok, the cache file holds exactly the bytes returned.
C2_MissWritesWhatItReturns ==
    \A t \in Threads :
        (pc[t] = "ret" /\ cached[t] /\ result[t].kind = "Ok" /\ ~overlap) =>
            /\ dirExists /\ file.exists
            /\ file.data = result[t].bytes
            /\ stat[t].miss =>
                    /\ stat[t].downloads = 1
                    /\ stat[t].dl = Ok(result[t].bytes)
                    /\ stat[t].writes = 1

C2_Witness ==
    \E t \in Threads :
        /\ pc[t] = "ret" /\ cached[t] /\ result[t].kind = "Ok" /\ ~overlap
        /\ stat[t].miss /\ stat[t].dl.kind = "Ok"
        /\ file.data = PdbBytes /\ Len(PdbBytes) > 1

\* C3 (as claimed): two loads of the same (file_name, guid) on one cache path
\* race benignly: when both downloads succeed with the same content and no
\* file-system call fails, every load returns the complete PDB bytes and the
\* cache file ends up holding them.
C3_RaceIsBenign ==
    (issued <= 2 /\ ~fsFailed /\ ~netFailed) =>
        /\ \A t \in Threads :
            (pc[t] = "ret" /\ cached[t]) => result[t] = Ok(PdbBytes)
        /\ ((\A t \in Threads : pc[t] = "idle") /\ file.exists) => file.data = PdbBytes

\* the exchanges of the download() of thread t's load
Req(t) == stat[t].req

\* C4: download() asks for {base_url}/{file_name}/{guid}/{file_name} first and
\* for {base_url}/{file_name}/{guid}/file.ptr only after the first request
\* returned an error; it returns the bytes of the first request that
\* succeeds, and an error only when both requests returned one.
C4_FallbackIsLocal ==
    \A t \in Threads :
        LET q == Req(t)
            d == stat[t].dl
        IN
        /\ Len(q) <= 2
        /\ Len(q) >= 1 =>
              q[1].url = <<base_url, Guid.file_name, Guid.guid, Guid.file_name>>
        /\ Len(q) = 2 =>
              /\ q[2].url = <<base_url, Guid.file_name, Guid.guid, "file.ptr">>
              /\ q[1].res.kind = "Err"
        /\ d.kind = "Ok" =>
              /\ q[Len(q)].res = d
              /\ d.bytes = q[Len(q)].resp.body
              /\ \A j \in 1..(Len(q) - 1) : q[j].res.kind # "Ok"
        /\ d.kind = "Err" =>
              /\ Len(q) = 2
              /\ q[1].res.kind = "Err" /\ q[2].res.kind = "Err"
              /\ d = q[2].res
        /\ (Len(q) >= 1 /\ q[Len(q)].res.kind = "Ok") => d = q[Len(q)].res
        /\ pc[t] = "dl_fallback" <=> (Len(q) = 1 /\ q[1].res.kind = "Err")

\* the primary request failed and the fallback's bytes were returned
C4_Witness ==
    \E t \in Threads :
        /\ Len(Req(t)) = 2
        /\ Req(t)[1].res = Err("Http")
        /\ stat[t].dl = Ok(PtrBytes)

\* both requests failed and the load returns the error
C4_WitnessBothFail ==
    \E t \in Threads :
        /\ Len(Req(t)) = 2
        /\ stat[t].dl = Err("Http")
        /\ pc[t] = "ret" /\ result[t] = Err("Http")

\* C5 (as claimed): a response without Content-Length, or whose body length
\* differs from Content-Length, makes the fetch fail with an Http error value;
\* its bytes are neither returned as a success nor written to the cache.
C5_BadLengthIsHttpError ==
    \A t \in Threads :
        \A j \in 1..Len(Req(t)) :
            BadLength(Req(t)[j].resp) =>
                /\ Req(t)[j].res = Err("Http")
                /\ pc[t] # "panicked"

----------------------------------------------------------------------------
(* KernelInfoScanner: properties *)

\* the places of the calls of `fn` in the trace
Calls(fn) == {i \in 1..Len(trace) : trace[i].fn = fn}

AllOverrides == s_arch # None /\ s_dtb # None /\ s_kernel_hint # None

\* C6 (as claimed): with arch, dtb and kernel_hint all supplied by the user,
\* scan() calls neither start_block::find nor start_block::find_fallback,
\* whatever fails on the user-supplied start block.
C6_OverridesSkipStartBlockFinder ==
    AllOverrides => (Calls("find") = {} /\ Calls("find_fallback") = {})

\* C7: scan() retries at most once: scan_block runs at most twice, a second
\* run comes right after a find_fallback that returned a start block, itself
\* called right after the first scan_block failed; the error of a failed
\* find_fallback, or of a failed second scan_block, is what scan() returns.
C7_AtMostOneRetry ==
    /\ Cardinality(Calls("scan_block")) <= 2
    /\ Cardinality(Calls("find_fallback")) <= 1
    /\ attempt = Cardinality(Calls("scan_block"))
    /\ \A i \in Calls("scan_block") :
        (\E j \in Calls("scan_block") : j < i) =>
            /\ trace[i - 1] = Event("find_fallback", TRUE)
            /\ trace[i - 2].fn \in {"ntos", "sysproc"} /\ ~trace[i - 2].ok
            /\ \A k \in Calls("find_fallback") : k = i - 1
    /\ \A k \in Calls("find_fallback") :
        /\ Cardinality({j \in Calls("scan_block") : j < k}) = 1
        /\ trace[k - 1].fn \in {"ntos", "sysproc"} /\ ~trace[k - 1].ok
        /\ ~trace[k].ok =>
              /\ k = Len(trace) /\ spc = "done"
              /\ scanResult = [kind |-> "Err", stage |-> "find_fallback", at |-> k,
                               info |-> None]
    /\ (attempt = 2 /\ Len(trace) > 0 /\ ~trace[Len(trace)].ok
            /\ trace[Len(trace)].fn \in {"ntos", "sysproc"}) =>
              /\ spc = "done"
              /\ scanResult = [kind |-> "Err", stage |-> trace[Len(trace)].fn,
                               at |-> Len(trace), info |-> None]
    /\ spc = "done" <=> scanResult.kind # "None"

\* the second scan_block failed and its error is the result
C7_Witness ==
    /\ attempt = 2
    /\ spc = "done"
    /\ scanResult.kind = "Err" /\ scanResult.stage = "sysproc"
    /\ Cardinality(Calls("find_fallback")) = 1

\* C8: once ntoskrnl is located, a failed find_guid leaves kernel_guid = None
\* and a failed find_winver leaves kernel_winver = {3, 10, 511}; the scan goes
\* on to the system-process lookup either way, and scan_block then fails only
\* if that lookup fails.
C8_GuidAndVersionBestEffort ==
    /\ (spc \in {"winver", "sysproc"} /\ outcome.guid.kind = "Err") =>
            loc.kernel_guid = None
    /\ (spc = "sysproc" /\ outcome.winver.kind = "Err") =>
            loc.kernel_winver = <<3, 10, 511>>
    /\ \A i \in 1..Len(trace) :
        /\ trace[i].fn = "guid" =>
              /\ trace[i - 1] = Event("ntos", TRUE)
              /\ IF i = Len(trace) THEN spc = "winver" ELSE trace[i + 1].fn = "winver"
        /\ trace[i].fn = "winver" =>
              IF i = Len(trace) THEN spc = "sysproc" ELSE trace[i + 1].fn = "sysproc"
        /\ (trace[i].fn = "sysproc" /\ trace[i].ok) =>
              /\ i = Len(trace)
              /\ scanResult.kind = "Ok"
    /\ scanResult.kind = "Ok" =>
        LET info == scanResult.info[1] IN
        /\ info.kernel_guid = outcome.guid.val
        /\ info.kernel_winver = IF outcome.winver.kind = "Ok"
                                THEN outcome.winver.val[1] ELSE <<3, 10, 511>>
        /\ trace[Len(trace)] = Event("sysproc", TRUE)

\* both lookups failed and the scan still succeeded
C8_Witness ==
    /\ scanResult.kind = "Ok"
    /\ outcome.guid.kind = "Err" /\ outcome.winver.kind = "Err"
    /\ scanResult.info[1].kernel_guid = None
    /\ scanResult.info[1].kernel_winver = <<3, 10, 511>>

----------------------------------------------------------------------------
(* Win32Offsets::from_pdb_slice: properties *)

RequiredStructs ==
    {"_LIST_ENTRY", "_KPROCESS", "_EPROCESS", "_ETHREAD", "_KTHREAD", "_TEB",
     "_MMVAD_SHORT", "_MMVAD_FLAGS"}

RequiredFields ==
    {<<"_LIST_ENTRY", "Blink">>, <<"_EPROCESS", "ActiveProcessLinks">>,
     <<"_KPROCESS", "DirectoryTableBase">>, <<"_EPROCESS", "UniqueProcessId">>,
     <<"_EPROCESS", "ImageFileName">>, <<"_EPROCESS", "Peb">>,
     <<"_EPROCESS", "SectionBaseAddress">>, <<"_EPROCESS", "ExitStatus">>,
     <<"_EPROCESS", "ThreadListHead">>, <<"_EPROCESS", "VadRoot">>,
     <<"_KTHREAD", "Teb">>, <<"_ETHREAD", "ThreadListEntry">>,
     <<"_TEB", "ProcessEnvironmentBlock">>}

\* the PDB parses and holds every required struct and every required field
HasAllRequired(p) ==
    /\ p.ok
    /\ RequiredStructs \subseteq p.structs
    /\ RequiredFields \subseteq p.fields

Returned == pdbResult # NoPdbResult

Has(s, f) == <<s, f>> \in pdb.fields

\* every optional item the PDB lacks is 0 in the table t
AbsentOptionalsAreZero(t) ==
    /\ pdb.symbols = {} => t.phys_mem_block = 0
    /\ (~Has("_EPROCESS", "WoW64Process") /\ ~Has("_EPROCESS", "Wow64Process")) =>
            t.eproc_wow64 = 0
    /\ ~Has("_TEB32", "ProcessEnvironmentBlock") => t.teb_peb_x86 = 0
    /\ (~Has("_MMVAD_SHORT", "VadNode") /\ ~Has("_MMVAD_SHORT", "LeftChild")) =>
            t.mmvad.vad_node = 0
    /\ ~Has("_MMVAD_SHORT", "StartingVpn") => t.mmvad.starting_vpn = 0
    /\ ~Has("_MMVAD_SHORT", "EndingVpn") => t.mmvad.ending_vpn = 0
    /\ ~Has("_MMVAD_SHORT", "StartingVpnHigh") => t.mmvad.starting_vpn_high = 0
    /\ ~Has("_MMVAD_SHORT", "EndingVpnHigh") => t.mmvad.ending_vpn_high = 0
    /\ ~Has("_MMVAD_SHORT", "u") => t.mmvad.u = 0
    /\ ~Has("_MMVAD_FLAGS", "Protection") => t.mmvad.protection_bit = 0

\* _TEB32 is in the PDB without a ProcessEnvironmentBlock field
Teb32WithoutPeb ==
    "_TEB32" \in pdb.structs /\ ~Has("_TEB32", "ProcessEnvironmentBlock")

\* C9 (as claimed): on a PDB with every required struct and field,
\* from_pdb_slice succeeds whatever optional items are absent, teb_peb_x86
\* being 0 when _TEB32 or its ProcessEnvironmentBlock field is absent, and
\* every other absent optional item being 0 too.
C9_OptionalAbsenceNeverFails ==
    (Returned /\ HasAllRequired(pdb)) =>
        /\ pdbResult.kind = "Ok"
        /\ AbsentOptionalsAreZero(pdbResult.table[1])

\* C9 (amended): the same, except that a _TEB32 struct that is present
\* without a ProcessEnvironmentBlock field makes from_pdb_slice return an
\* Offset error; teb_peb_x86 is 0 when the _TEB32 struct itself is absent.
C9_OptionalAbsenceExceptTeb32Field ==
    (Returned /\ HasAllRequired(pdb)) =>
        IF Teb32WithoutPeb
        THEN /\ pdbResult.kind = "Err" /\ pdbResult.err = "Offset"
             /\ pdbResult.msg = "_TEB32::ProcessEnvironmentBlock not found"
        ELSE /\ pdbResult.kind = "Ok"
             /\ AbsentOptionalsAreZero(pdbResult.table[1])

\* every optional item is absent and the table has them all 0
C9_Witness ==
    /\ Returned /\ HasAllRequired(pdb)
    /\ pdb.structs = RequiredStructs /\ pdb.fields = RequiredFields /\ pdb.symbols = {}
    /\ pdbResult.kind = "Ok"
    /\ pdbResult.table[1].teb_peb_x86 = 0
    /\ pdbResult.table[1].list_blink # 0

\* C10: from_pdb_slice returns an Offset error, and no table, whenever a
\* required struct or a required field is missing from the PDB.
C10_MissingRequiredIsOffsetError ==
    (Returned /\ ~HasAllRequired(pdb)) =>
        /\ pdbResult.kind = "Err"
        /\ pdbResult.err = "Offset"
        /\ pdbResult.table = None

\* only _EPROCESS::VadRoot, the last lookup with a `?`, is missing
C10_Witness ==
    /\ Returned
    /\ pdb.ok /\ RequiredStructs \subseteq pdb.structs
    /\ RequiredFields \ pdb.fields = {<<"_EPROCESS", "VadRoot">>}
    /\ pdbResult.kind = "Err"
    /\ pdbResult.msg = "_EPROCESS::VadRoot not found"

\* the offsets from_pdb_slice looks up with a `?`
RequiredOffsets(t) ==
    {t.list_blink, t.eproc_link, t.kproc_dtb, t.eproc_pid, t.eproc_name,
     t.eproc_peb, t.eproc_section_base, t.eproc_exit_status, t.eproc_thread_list,
     t.eproc_vad_root, t.kthread_teb, t.ethread_list_entry, t.teb_peb}

\* C11: in every offset table from_pdb_slice returns, every required offset
\* (list_blink, eproc_link, kproc_dtb, eproc_pid, eproc_name, eproc_peb,
\* eproc_section_base, eproc_exit_status, eproc_thread_list, eproc_vad_root,
\* kthread_teb, ethread_list_entry, teb_peb) is non-zero.
C11_RequiredOffsetsNonZero ==
    (Returned /\ pdbResult.kind = "Ok") =>
        0 \notin RequiredOffsets(pdbResult.table[1])

----------------------------------------------------------------------------
(* Start-block scanners: properties *)

\* the call of fn has returned
Called(fn) == arg.fn = fn /\ ret # NoRet

\* the pages of the scanned buffer that pass the scanner's page test
PaeQualifying == {k \in DOMAIN arg.mem : check_page(pae_addr(k), arg.mem[k])}
A64Qualifying == {k \in DOMAIN arg.mem : find_pt(a64_addr(k), arg.mem[k]) # None}

\* the pages of the scanned buffer with a non-zero byte or entry
PaeMarked == {k \in DOMAIN arg.mem : \E b \in DOMAIN arg.mem[k] : arg.mem[k][b] # 0}
A64Marked == {k \in DOMAIN arg.mem :
                \E e \in DOMAIN arg.mem[k] : arg.mem[k][e] # Pte(0, 0, 0, 0)}

\* C12: the x86-PAE and the AArch64 scanner return the qualifying page with
\* the lowest address of the buffer, whatever qualifying pages follow it, and
\* return NotFound exactly when no page of the buffer qualifies.
C12_LowestQualifyingPage ==
    /\ Called("x86pae::find") =>
        IF PaeQualifying = {}
        THEN ret.kind = "Err" /\ ret.err = "NotFound"
        ELSE /\ ret.kind = "Ok"
             /\ \E k \in PaeQualifying :
                    /\ ret.val[1].dtb = (k - 1) * 4096
                    /\ \A j \in PaeQualifying : k <= j
    /\ Called("aarch64::find") =>
        IF A64Qualifying = {}
        THEN ret.kind = "Err" /\ ret.err = "NotFound"
        ELSE /\ ret.kind = "Ok"
             /\ \E k \in A64Qualifying :
                    /\ ret.val[1].dtb = 1073741824 + (k - 1) * 4096
                    /\ \A j \in A64Qualifying : k <= j

\* two pages of an AArch64 buffer qualify and the lower one is returned
C12_Witness ==
    /\ Called("aarch64::find")
    /\ Cardinality(A64Qualifying) = 2
    /\ ret.kind = "Ok"
    /\ ret.val[1].dtb = 1073741824 + 4096

\* the buffer holds one non-zero page, at physical address 0x10000
OnlyPageAt0x10000 == arg.fn = "x86pae::find" /\ PaeMarked = {17}

\* the first four qwords of that page
LowStubQwords == [i \in 1..4 |-> from_le_bytes(SubSeq(arg.mem[17], 8 * i - 7, 8 * i))]

\* every byte of that page after its first four qwords is 0
LowStubTailZero == \A b \in 33..Len(arg.mem[17]) : arg.mem[17][b] = 0

\* C13 (as claimed): for a low-stub page at physical address 0x10000 whose
\* first qwords are 0x11001 and 0x11401+0x1000 (the other two self-map
\* entries following that pattern, all later qwords zero) the x86-PAE scanner
\* returns a start block with dtb = 0x10000.
C13_SyntheticLowStubFound ==
    (Called("x86pae::find") /\ OnlyPageAt0x10000 /\ LowStubTailZero
        /\ LowStubQwords[1] = 69633 /\ LowStubQwords[2] = 74753) =>
        (ret.kind = "Ok" /\ ret.val[1].dtb = 65536)

\* C13 (amended): the page at 0x10000 whose first four qwords are 0x11001,
\* 0x12001, 0x13001, 0x14001 with all later qwords zero gives dtb = 0x10000;
\* the page of the claim, whose second qword is 0x12401, is rejected and the
\* scanner returns NotFound.
C13_LowStubFoundWithStride0x1000 ==
    (Called("x86pae::find") /\ OnlyPageAt0x10000 /\ LowStubTailZero) =>
        /\ LowStubQwords = <<69633, 73729, 77825, 81921>> =>
                (ret.kind = "Ok" /\ ret.val[1].dtb = 65536
                    /\ ret.val[1].arch = "X86PAE" /\ ret.val[1].kernel_hint = 0)
        /\ LowStubQwords[2] = 74753 =>
                (ret.kind = "Err" /\ ret.err = "NotFound")

\* the page with the 0x1000 stride alone in the buffer, found at 0x10000
C13_Witness ==
    /\ Called("x86pae::find") /\ OnlyPageAt0x10000 /\ LowStubTailZero
    /\ LowStubQwords = <<69633, 73729, 77825, 81921>>
    /\ ret.kind = "Ok" /\ ret.val[1].dtb = 65536

\* the bytes of page k are those of the PDPT self-map at its address: qword i
\* (i = 0..3) is A + ((i*8) << 9) + 0x1001 in little-endian order, every
\* later byte of the page is 0
IsSelfMap(k) ==
    LET A == (k - 1) * 4096
        page == arg.mem[k]
    IN
    /\ \A i \in 0..3 :
          SubSeq(page, 8 * i + 1, 8 * i + 8) = ToLe(A + (i * 8) * 512 + 4097, 8)
    /\ \A b \in 33..Len(page) : page[b] = 0

\* C19: check_page accepts a page at physical address A if and only if
\* qword[i] = A + ((i*8) << 9) + 0x1001 for i = 0..3 and qword[i] = 0 for
\* every i >= 4 (little-endian); any single differing qword rejects the page.
C19_CheckPageIsSelfMapTest ==
    Called("x86pae::find") =>
        /\ \A k \in DOMAIN arg.mem :
              check_page((k - 1) * 4096, arg.mem[k]) <=> IsSelfMap(k)
        /\ ret.kind = "Ok" <=> \E k \in DOMAIN arg.mem : IsSelfMap(k)

\* a page that differs from the self-map in its last qword only is rejected
C19_Witness ==
    /\ Called("x86pae::find")
    /\ \E k \in PaeMarked :
          /\ PaeMarked = {k}
          /\ \A i \in 0..3 :
                qword_at(arg.mem[k], i) = (k - 1) * 4096 + i * 4096 + 4097
          /\ \A i \in 4..(PageQwords - 2) : qword_at(arg.mem[k], i) = 0
          /\ qword_at(arg.mem[k], PageQwords - 1) = 1
    /\ ret.kind = "Err"

\* the entries of the upper half of page k
UpperEntries(k) ==
    {arg.mem[k][e] : e \in ((Len(arg.mem[k]) \div 2) + 1)..Len(arg.mem[k])}

\* the scanner's self-reference condition on page k
SelfRefHolds(k) == \E e \in UpperEntries(k) : self_ref(a64_addr(k), e)

\* C20 (as claimed): the self-reference condition holds for a page at address
\* P exactly when some entry of the upper half has all bits above bit 11
\* equal to those of P, its low 12 bits being ignored.
C20_SelfRefIgnoresLowBits ==
    Called("aarch64::find") =>
        \A k \in DOMAIN arg.mem :
            SelfRefHolds(k) <=>
                \E e \in UpperEntries(k) :
                    /\ e.hi = 0 /\ e.mid = 0
                    /\ e.frame = (1073741824 + (k - 1) * 4096) \div 4096

\* C20 (amended): the condition holds exactly when some entry of the upper
\* half has low 12 bits equal to 0xF03 and bits 12..51 equal to those of P;
\* bits 52..63 of the entry are ignored.
C20_SelfRefNeedsLowBits0xF03 ==
    Called("aarch64::find") =>
        \A k \in DOMAIN arg.mem :
            SelfRefHolds(k) <=>
                \E e \in UpperEntries(k) :
                    /\ e.lo = 3843 /\ e.mid = 0
                    /\ e.frame = (1073741824 + (k - 1) * 4096) \div 4096

\* a page whose only entry pointing at itself has low bits 0x703 is not
\* taken, with a good first entry and six kernel entries
C20_Witness ==
    /\ Called("aarch64::find")
    /\ \E k \in A64Marked :
          /\ A64Marked = {k}
          /\ arg.mem[k][1] = Pte(0, 0, 1, 3843)
          /\ Pte(0, 0, a64_addr(k) \div 4096, 1795) \in UpperEntries(k)
          /\ Cardinality({e \in DOMAIN arg.mem[k] : arg.mem[k][e].lo = 1795}) >= 6
          /\ ~SelfRefHolds(k)
    /\ ret.kind = "Err"

----------------------------------------------------------------------------
(* kernel::ntos and Win32KernelBuilder::build: properties *)

\* the names of the calls made, in order
CallNames == [i \in DOMAIN ret.calls |-> ret.calls[i].fn]

\* C14: on a 64-bit start block ntos::find tries the va-hint probe first, and
\* only when kernel_hint is non-NULL; the page-map scan runs only if the probe
\* was skipped or failed; the (base, size) of the strategy that succeeds is
\* returned and no later strategy runs.  On a 32-bit start block only the
\* 32-bit scan runs.  When every strategy tried fails, find returns an error
\* and no base.
C14_StrategiesInOrder ==
    Called("ntos::find") =>
        IF arg.block.arch \in {"X64", "AArch64"}
        THEN IF arg.block.kernel_hint = 0
             THEN /\ CallNames = <<"x64::find">>
                  /\ ret.kind = arg.x64.kind /\ ret.val = arg.x64.val
             ELSE IF arg.va_hint.kind = "Ok"
             THEN /\ CallNames = <<"x64::find_with_va_hint">>
                  /\ ret.kind = "Ok" /\ ret.val = arg.va_hint.val
             ELSE /\ CallNames = <<"x64::find_with_va_hint", "x64::find">>
                  /\ ret.kind = arg.x64.kind /\ ret.val = arg.x64.val
        ELSE /\ CallNames = <<"x86::find">>
             /\ ret.kind = arg.x86.kind /\ ret.val = arg.x86.val

\* the probe fails on a hinted x64 block and the page-map scan finds the kernel
C14_Witness ==
    /\ Called("ntos::find")
    /\ arg.block.arch = "X64" /\ arg.block.kernel_hint # 0
    /\ arg.va_hint.kind = "Err" /\ arg.x64.kind = "Ok"
    /\ CallNames = <<"x64::find_with_va_hint", "x64::find">>
    /\ ret.kind = "Ok" /\ ret.val[1].base = 2097152

\* the debug directory of the image find_guid is called on
DebugDir == arg.image.debug[1]

HasDebugDir ==
    arg.fn = "find_guid" /\ arg.image.readable /\ arg.image.pe_ok
        /\ arg.image.debug # None

\* the Guid of a CodeView 7.0 entry: its file name, its signature and age in hex
GuidOf(e) == [file_name |-> e.name, guid |-> e.sig \o UpperHex(e.age)]

\* entry k is a CodeView 7.0 record that can be read, its file name included
ReadableCv70(k) == DebugDir[k].kind = "Cv70" /\ DebugDir[k].utf8

\* entry k is the first CodeView record (2.0 or 7.0) of the directory
FirstCodeView(k) ==
    /\ DebugDir[k].kind \in {"Cv20", "Cv70"}
    /\ \A j \in 1..(k - 1) : DebugDir[j].kind \notin {"Cv20", "Cv70"}

\* C15 (as claimed): whenever the debug directory holds a readable Cv70 entry,
\* find_guid returns the Guid built from such an entry, whatever entries
\* precede it; with no Cv70 entry it fails with InvalidExeFile; a Cv20 entry
\* is never used to build a Guid.
C15_AnyCv70EntryIsFound ==
    (Called("find_guid") /\ HasDebugDir) =>
        /\ (\E k \in DOMAIN DebugDir : ReadableCv70(k)) =>
              /\ ret.kind = "Ok"
              /\ \E k \in DOMAIN DebugDir :
                    ReadableCv70(k) /\ ret.val[1] = GuidOf(DebugDir[k])
        /\ (\A k \in DOMAIN DebugDir : DebugDir[k].kind # "Cv70") =>
              (ret.kind = "Err" /\ ret.err = "InvalidExeFile")

\* C15 (amended): find_guid looks at the first CodeView entry of the debug
\* directory only.  It returns the Guid built from that entry's signature,
\* age and pdb file name when the entry is Cv70 (Encoding error when the file
\* name is not UTF-8); it fails with InvalidExeFile when that entry is Cv20,
\* even if a Cv70 entry follows, and when the directory has no CodeView entry;
\* a Cv20 entry is never used to build a Guid.
C15_FirstCodeViewEntryDecides ==
    (Called("find_guid") /\ HasDebugDir) =>
        /\ \A k \in DOMAIN DebugDir :
              FirstCodeView(k) =>
                  CASE DebugDir[k].kind = "Cv20" ->
                          ret.kind = "Err" /\ ret.err = "InvalidExeFile"
                    [] ReadableCv70(k) ->
                          ret.kind = "Ok" /\ ret.val[1] = GuidOf(DebugDir[k])
                    [] OTHER ->
                          ret.kind = "Err" /\ ret.err = "Encoding"
        /\ (\A k \in DOMAIN DebugDir : DebugDir[k].kind \notin {"Cv20", "Cv70"}) =>
              (ret.kind = "Err" /\ ret.err = "InvalidExeFile")
        /\ ret.kind = "Ok" =>
              \E k \in DOMAIN DebugDir :
                    DebugDir[k].kind = "Cv70" /\ ret.val[1] = GuidOf(DebugDir[k])

\* a Cv20 entry ahead of a readable Cv70 entry: InvalidExeFile
C15_Witness ==
    /\ Called("find_guid") /\ HasDebugDir
    /\ Len(DebugDir) = 2
    /\ DebugDir[1].kind = "Cv20" /\ ReadableCv70(2)
    /\ ret.kind = "Err" /\ ret.err = "InvalidExeFile"

\* C16: find_winver fails when the NtBuildNumber export is missing or the u32
\* read at kernel_base + rva is 0, and every Version it returns has build
\* equal to that non-zero NtBuildNumber value, whichever source supplied major
\* and minor.
C16_BuildIsNtBuildNumber ==
    Called("find_winver") =>
        /\ arg.nt_build_number = "missing" => ret.kind = "Err"
        /\ arg.build.data = 0 => ret.kind = "Err"
        /\ ret.kind = "Ok" =>
              /\ arg.nt_build_number = "symbol"
              /\ arg.build.kind = "Ok" /\ arg.build.data # 0
              /\ ret.val[1][3] = arg.build.data

\* major and minor come from the code at RtlGetVersion, build from NtBuildNumber
C16_Witness ==
    /\ Called("find_winver")
    /\ arg.major.data = 0 /\ arg.rtl_get_version = "symbol"
    /\ arg.buf.kind = "Ok" /\ arg.buf.data[1] = 72
    /\ ret.kind = "Ok" /\ ret.val[1] = <<10, 0, 19041>>

\* the places in the call sequence of build() where fn is called
BuildCalls(fn) == {i \in DOMAIN ret.calls : ret.calls[i].fn = fn}

\* C17: in build() the page-cache closure and the VAT-cache closure are each
\* evaluated exactly once, page cache before VAT cache, only after the kernel
\* scan and the offset resolution have both succeeded, each receiving the
\* architecture the scan detected; when the scan or the offset resolution
\* fails neither closure is evaluated and no kernel object is returned.
C17_CachesBuiltOnceAfterScanAndOffsets ==
    Called("build") =>
        IF arg.scan.kind = "Ok" /\ arg.offsets.kind = "Ok"
        THEN /\ ret.kind = "Ok"
             /\ \E s \in BuildCalls("scan"), o \in BuildCalls("build_offsets"),
                   p \in BuildCalls("build_page_cache"),
                   v \in BuildCalls("build_vat_cache") :
                    /\ s < o /\ o < p /\ p < v
                    /\ BuildCalls("build_page_cache") = {p}
                    /\ BuildCalls("build_vat_cache") = {v}
                    /\ ret.calls[p].a = Some(arg.scan.val[1].arch)
                    /\ ret.calls[v].a = Some(arg.scan.val[1].arch)
        ELSE /\ ret.kind = "Err" /\ ret.val = None
             /\ BuildCalls("build_page_cache") = {}
             /\ BuildCalls("build_vat_cache") = {}

\* the builder was given x64 and the scan detected AArch64: both closures get
\* AArch64
C17_Witness ==
    /\ Called("build")
    /\ arg.arch = Some("X64")
    /\ arg.scan.kind = "Ok" /\ arg.scan.val[1].arch = "AArch64"
    /\ ret.kind = "Ok"
    /\ Len(ret.calls) = 5
    /\ ret.calls[4] = Call("build_page_cache", Some("AArch64"))
    /\ ret.calls[5] = Call("build_vat_cache", Some("AArch64"))

----------------------------------------------------------------------------
(* read_to_end: properties *)

\* C18: on every return path of read_to_end, the successful read and the
\* failed read alike, the progress thread has seen the finished flag, has
\* terminated and has been joined: no worker thread outlives the call.
C18_WorkerJoinedOnEveryReturn ==
    rpc = "done" => (finished /\ wpc = "exited")

----------------------------------------------------------------------------
(* start_block::aarch64: the first entry of a page *)

\* the page of the buffer that aarch64::find returned as the dtb
A64Returned(k) ==
    /\ Called("aarch64::find")
    /\ ret.kind = "Ok"
    /\ ret.val[1].dtb = a64_addr(k)

\* the first PTE of page k has low 12 bits 0xF03 and a physical frame
\* strictly below 512 GiB
FirstPteInRange(k) ==
    /\ arg.mem[k][1].lo = 3843
    /\ arg.mem[k][1].frame < max_mem

\* C21: the AArch64 scanner rejects every page whose first PTE does not have
\* low 12 bits 0xF03 or whose first PTE's physical frame (bits 12..47) is not
\* strictly below 512 GiB; a first PTE whose frame is exactly 512 GiB is
\* rejected.
C21_FirstPteBelow512GiB ==
    Called("aarch64::find") =>
        \A k \in DOMAIN arg.mem : ~ FirstPteInRange(k) => ~ A64Returned(k)

----------------------------------------------------------------------------
(* kernel::ntos::x64: the probes of find_with_va_hint *)

\* a >= b on u64
AtLeast(a, b) == ~ u64_gt(b, a)

\* the k-th base below hint & !0x1ffff in 2 MiB steps (k from 0)
ProbeBase(k) == u64_sub(and_not_0x1ffff(arg.hint), mb(2 * k))

\* the bases that find_with_va_hint probed, in order
Probed == [k \in DOMAIN ret.calls |-> ret.calls[k].a]

\* the probe of base b succeeds
ProbeSucceeds(b) == find_with_va(arg.mem, b).kind = "Ok"

\* C22: for a kernel_hint of at least 16 MiB, find_with_va_hint probes the
\* bases (kernel_hint & ~0x1FFFF) - k * 2 MiB for k = 0, 1, 2, ... in that
\* descending order, a base only while base + 16 MiB > kernel_hint, and stops
\* at the first base whose probe succeeds; when no probe succeeds exactly 8
\* bases are probed and the function returns an error.
C22_EightProbesDownFromHint ==
    (Called("x64::find_with_va_hint") /\ AtLeast(arg.hint, mb16)) =>
        /\ ret.kind \in {"Ok", "Err"}
        /\ \A k \in DOMAIN Probed :
            /\ ~ ProbeBase(k - 1).wrapped
            /\ Probed[k] = ProbeBase(k - 1).v
            /\ ~ u64_add(Probed[k], mb16).wrapped
            /\ u64_gt(u64_add(Probed[k], mb16).v, arg.hint)
            /\ k < Len(Probed) => ~ ProbeSucceeds(Probed[k])
        /\ IF \E k \in DOMAIN Probed : ProbeSucceeds(Probed[k])
           THEN ProbeSucceeds(Probed[Len(Probed)])
           ELSE Len(Probed) = 8 /\ ret.kind = "Err"

\* C30: find_with_va_hint terminates for every non-NULL 64-bit kernel_hint
\* with no underflow of va_base in `va_base -= 2 MiB` and no overflow of
\* `va_base + 16 MiB`, for hints below 16 MiB and for hints within 16 MiB of
\* 2^64 as well: it returns Ok or Err, never panics on the arithmetic, probes
\* at least the base at the hint and never a base above the hint.
C30_HintArithmeticInRange ==
    Called("x64::find_with_va_hint") =>
        /\ ret.kind \in {"Ok", "Err"}
        /\ Probed # <<>>
        /\ \A k \in DOMAIN Probed : AtLeast(arg.hint, Probed[k])

----------------------------------------------------------------------------
(* kernel::ntos::x64: find_with_va on one window *)

\* the address of chunk i of the window
ChunkAddr(i) == u64_add(arg.va_base, U64(0, 0, i * 4096)).v

\* the window could be read (in full or in part) into the buffer
WindowRead == arg.va_base \notin arg.mem.failing

\* the page starts with "MZ" (e_magic = 0x5A4D), has e_lfanew <= 0x800 and a
\* PE name that reads as "ntoskrnl.exe"
IsKernelPage(p) ==
    /\ p.e_magic = <<77, 90>>
    /\ p.e_lfanew[1] + 256 * p.e_lfanew[2] + 65536 * p.e_lfanew[3]
            + 16777216 * p.e_lfanew[4] <= 2048
    /\ p.name = ROk("ntoskrnl.exe")

\* the chunks of the buffer that hold a page passing the three tests
KernelChunks ==
    IF WindowRead
    THEN {i \in 0..511 : \E p \in arg.mem.pages : p.at = ChunkAddr(i) /\ IsKernelPage(p)}
    ELSE {}

\* C23: find_with_va on a 2 MiB window returns the lowest page-aligned address
\* of the window whose page starts with the MZ magic, has e_lfanew <= 0x800
\* and whose PE name reads as "ntoskrnl.exe"; a page failing one of the three
\* tests, or whose name cannot be read, is skipped and the pages after it are
\* still examined; it returns an error when no page passes.
C23_LowestKernelPageOfWindow ==
    Called("x64::find_with_va") =>
        IF KernelChunks = {}
        THEN ret.kind = "Err"
        ELSE /\ ret.kind = "Ok"
             /\ \E i \in KernelChunks :
                    /\ ret.val[1] = ChunkAddr(i)
                    /\ \A j \in KernelChunks : i <= j

\* the page at the last chunk of the window, with e_lfanew = 0x800, is
\* returned after a page whose name cannot be read was passed over
C23_Witness ==
    /\ Called("x64::find_with_va")
    /\ ret.kind = "Ok"
    /\ ret.val[1] = ChunkAddr(511)
    /\ \E p \in arg.mem.pages : p.at = ChunkAddr(511) /\ p.e_lfanew = <<0, 8, 0, 0>>
    /\ \E p \in arg.mem.pages : p.at = ChunkAddr(0) /\ p.name = RErr

----------------------------------------------------------------------------
(* kernel::ntos: find_winver and the reads of KUSER_SHARED_DATA *)

\* the call reached the reads of KUSER_SHARED_DATA: NtBuildNumber was
\* resolved and read in full as a non-zero value
BuildNumberRead ==
    /\ Called("find_winver")
    /\ arg.readable /\ arg.pe_ok
    /\ arg.nt_build_number = "symbol"
    /\ arg.build.kind = "Ok" /\ arg.build.data # 0

\* the value taken for a KUSER_SHARED_DATA field: what was read of it, and 0
\* when nothing was
FieldOrZero(r) == IF r.kind = "Err" THEN 0 ELSE r.data

\* the RtlGetVersion fallback is due for the values taken
FallbackDue ==
    FieldOrZero(arg.major) = 0 /\ arg.rtl_get_version = "symbol"

\* C24: when NtBuildNumber is non-zero, a partial or failed read of
\* KUSER_SHARED_DATA (the major field at 0x7FFE0000 + 0x26C, the minor field
\* at + 0x270) never makes find_winver fail: the unread field is taken as 0
\* and the call goes on to the RtlGetVersion fallback or returns the version
\* with build = NtBuildNumber.
C24_KuserReadFailureTolerated ==
    (/\ BuildNumberRead
     /\ arg.major.kind # "Ok" \/ arg.minor.kind # "Ok"
     /\ FallbackDue => arg.buf.kind # "Err") =>
        /\ ret.kind = "Ok"
        /\ ret.val[1][3] = arg.build.data
        /\ ~ FallbackDue =>
            /\ ret.val[1][1] = FieldOrZero(arg.major)
            /\ ret.val[1][2] = FieldOrZero(arg.minor)

----------------------------------------------------------------------------
(* kernel::ntos: the RtlGetVersion fallback of find_winver *)

\* u32_le(buf[i..]) == 0x0441C748: the bytes 48 C7 41 04 at offset i
IsMovQword(b, i) == SubSeq(b, i + 1, i + 4) = <<72, 199, 65, 4>>

\* u32_le(buf[i..]) & 0xFFFFF == 0x441C7 (field = 4) or 0x841C7 (field = 8):
\* the bytes C7 41 at offset i and the low nibble of the byte after them
IsMovDword(b, i, field) ==
    b[i + 1] = 199 /\ b[i + 2] = 65 /\ b[i + 3] % 16 = field

\* the three predicates at offset i, in order, on <<major, minor>>
ScanStep(b, i, v) ==
    LET a == IF v = <<0, 0>> /\ IsMovQword(b, i)
             THEN << b[i + 5] + 256 * b[i + 6], b[i + 6] % 16 >> ELSE v
        bb == IF a[1] = 0 /\ IsMovDword(b, i, 4) THEN << b[i + 4], a[2] >> ELSE a
        c == IF bb[2] = 0 /\ IsMovDword(b, i, 8) THEN << b[i + 4], bb[2] >> ELSE bb
    IN c

\* the scan from offset i to the last offset, 0x10 bytes before the end of
\* the buffer (0xEF in a buffer of 0x100 bytes)
RECURSIVE ScanFrom(_, _, _)
ScanFrom(b, i, v) ==
    IF i > Len(b) - 17 THEN v ELSE ScanFrom(b, i + 1, ScanStep(b, i, v))

\* C25: the RtlGetVersion fallback runs exactly when the KUSER_SHARED_DATA
\* major is 0 and the RtlGetVersion export resolves; it resets major and minor
\* to 0 and scans the offsets in ascending order with the three predicates
\* (a) major = minor = 0 and dword = 0x0441C748: major = u16 at i+4, minor =
\* buf[i+5] & 0xF; (b) major = 0 and dword & 0xFFFFF = 0x441C7: major =
\* buf[i+3]; (c) minor = 0 and dword & 0xFFFFF = 0x841C7: major = buf[i+3],
\* minor unchanged.  The returned major and minor are the result of the scan.
C25_RtlGetVersionScan ==
    (/\ BuildNumberRead
     /\ arg.major.kind # "Err" /\ arg.minor.kind # "Err"
     /\ FallbackDue => arg.buf.kind # "Err") =>
        /\ ret.kind = "Ok"
        /\ << ret.val[1][1], ret.val[1][2] >> =
            IF FallbackDue
            THEN ScanFrom(arg.buf.data, 0, <<0, 0>>)
            ELSE << arg.major.data, arg.minor.data >>

\* `C7 41 04 0A` sets major to 10 and `C7 41 08 01` after it, met with minor
\* still 0, writes 1 to major; the minor read from KUSER_SHARED_DATA is reset
C25_Witness ==
    /\ BuildNumberRead /\ FallbackDue
    /\ arg.minor.data = 1
    /\ arg.buf.kind = "Ok"
    /\ SubSeq(arg.buf.data, 1, 8) = <<199, 65, 4, 10, 199, 65, 8, 1>>
    /\ ret.kind = "Ok"
    /\ ret.val[1] = <<1, 0, 19041>>

----------------------------------------------------------------------------
(* Win32Offsets::from_pdb_slice: items known under two names *)

\* where the PDB at hand has the field f of struct s, and the symbol n
OffsetAt(s, f) == pdb.layout * 8 * IndexOf(PdbFields, <<s, f>>)
RvaAt(n) == pdb.layout * 4096 * IndexOf(PdbSymbolNames, n)

\* the place of the first of two fields of s that the PDB has, else 0
FirstField(s, f, g) ==
    IF Has(s, f) THEN OffsetAt(s, f) ELSE IF Has(s, g) THEN OffsetAt(s, g) ELSE 0

\* the RVA of the first of two symbols that the PDB has, else 0
FirstSymbol(n, o) ==
    IF n \in pdb.symbols THEN RvaAt(n) ELSE IF o \in pdb.symbols THEN RvaAt(o) ELSE 0

----------------------------------------------------------------------------
(* KernelInfoScanner::scan: the dtb and the start block of the result *)

\* scan() returned a Win32KernelInfo
ScanSucceeded == scanResult.kind = "Ok"

\* C27: a dtb override supplied by the user is honoured: whenever
\* KernelInfoScanner.dtb(d) was called and scan succeeds, the returned
\* Win32KernelInfo.dtb equals d, whether or not arch and kernel_hint were
\* supplied as well.
C27_DtbOverrideHonoured ==
    (ScanSucceeded /\ s_dtb # None) => scanResult.info[1].dtb = s_dtb[1]

\* C27 (amended): the dtb given by the user is the dtb of the result when
\* arch and kernel_hint were given with it and the scan succeeds on that start
\* block; in every other successful scan the dtb is the one of the start block
\* that start_block::find or find_fallback returned.
C27_DtbOverrideNeedsArchAndHint ==
    ScanSucceeded =>
        IF AllOverrides /\ attempt = 1
        THEN /\ scanResult.info[1].dtb = s_dtb[1]
             /\ Calls("find") = {} /\ Calls("find_fallback") = {}
        ELSE /\ scanResult.info[1].dtb = start_block.dtb
             /\ \E i \in Calls("find") \cup Calls("find_fallback") :
                    /\ trace[i].ok
                    /\ trace[i + 1] = Event("scan_block", TRUE)
                    /\ \A j \in Calls("scan_block") : j <= i + 1

\* the three overrides were given, the scan succeeded at once and returned
\* the user's dtb
C27_Witness ==
    /\ ScanSucceeded /\ AllOverrides /\ attempt = 1
    /\ s_dtb = Some(8192)
    /\ scanResult.info[1].dtb = 8192

\* the place in the trace where the scan_block that is running, or ran last,
\* was entered
LastScanBlock == CHOOSE i \in Calls("scan_block") : \A j \in Calls("scan_block") : j <= i

\* the calls of fn made by that scan_block
InLastScanBlock(fn) == {i \in Calls(fn) : i > LastScanBlock}

\* C28: scan returns no partial or mixed context: a successful
\* Win32KernelInfo has os_info.arch and dtb of the one start block on which
\* the ntoskrnl base and size, the guid, the version and eprocess_base were
\* all obtained; nothing computed in a failed first attempt appears in a
\* result produced from the fallback start block; a failed scan returns an
\* error and nothing else.
C28_NoMixedContext ==
    /\ scanResult.kind = "Err" => scanResult.info = None
    /\ ScanSucceeded =>
        LET info == scanResult.info[1] IN
        /\ info.os_info.arch = start_block.arch
        /\ info.dtb = start_block.dtb
        /\ \A fn \in {"ntos", "guid", "winver", "sysproc"} :
                Cardinality(InLastScanBlock(fn)) = 1
        /\ \A i \in InLastScanBlock("ntos") \cup InLastScanBlock("sysproc") : trace[i].ok
        /\ \A i \in InLastScanBlock("guid") :
                /\ trace[i].ok = (outcome.guid.kind = "Ok")
                /\ info.kernel_guid = ok(outcome.guid)
        /\ \A i \in InLastScanBlock("winver") :
                /\ trace[i].ok = (outcome.winver.kind = "Ok")
                /\ info.kernel_winver =
                        IF trace[i].ok THEN outcome.winver.val[1] ELSE <<3, 10, 511>>
        /\ info.os_info.base = loc.base /\ info.os_info.size = loc.size

\* the first attempt found the guid and the version and then failed; the
\* fallback start block, with another dtb, gave neither, and the result has
\* the fallback's dtb, no guid and the floor version
C28_Witness ==
    /\ ScanSucceeded /\ attempt = 2
    /\ \E i \in Calls("guid") : i < LastScanBlock /\ trace[i].ok
    /\ \E i \in Calls("winver") : i < LastScanBlock /\ trace[i].ok
    /\ s_dtb = Some(4096)
    /\ scanResult.info[1].dtb = 8192
    /\ scanResult.info[1].kernel_guid = None
    /\ scanResult.info[1].kernel_winver = <<3, 10, 511>>

----------------------------------------------------------------------------
(* SymbolStore: the cache file after failed loads *)

\* the complete bodies a successful download can return
CompleteDownloads == {PdbBytes, PtrBytes}

\* C29: after any sequence of SymbolStore.load calls on one cache path, loads
\* that failed while creating or writing the cache file included, a cache file
\* that exists holds the complete bytes of a successful download, and a later
\* cache hit never returns an empty or truncated PDB.
C29_CacheFileIsComplete ==
    ~overlap =>
        /\ ((\A t \in Threads : pc[t] = "idle") /\ file.exists) =>
                file.data \in CompleteDownloads
        /\ \A t \in Threads :
            (pc[t] = "ret" /\ cached[t] /\ ~stat[t].miss /\ result[t].kind = "Ok") =>
                result[t].bytes \in CompleteDownloads

====
